---- MODULE Spec2Model ----
(***************************************************************************)
(* Request batcher (createBatcher) and the batched deferred-content        *)
(* resolver (processDeferredBatched) of rfid-content-types.                *)
(*                                                                         *)
(* Time is counted in milliseconds and advances in steps of TickMs.        *)
(* Instead of the absolute clock the model keeps the two differences the   *)
(* code computes from it:                                                  *)
(*   lastUpdatedAge = Date.now() - lastUpdated  (saturating above the      *)
(*                    largest value any comparison in set can tell apart), *)
(*   timerLeft      = milliseconds until the debounce timer is due.        *)
(* The 57 ms timer of callPendingCallbacks and the duration of a bulk      *)
(* callback are not measured: both are steps that happen at some later     *)
(* time.                                                                   *)
(***************************************************************************)
EXTENDS Integers, Sequences, FiniteSets, TLC

\* ---- bounds of the model ----
PeriodTicks == 3         \* options.periodInMs of the batcher under test, in clock steps
MaxCalls == 3            \* number of set / setNow / fetch calls explored
MaxFairCalls == 2        \* the same, in the specifications with fairness
MaxValue == 1            \* content values range over 0..MaxValue
MaxKey == 1              \* unique-match keys of remote records range over 1..MaxKey
MaxResponse == 2         \* longest record list a remote response carries
MaxEpc == 2              \* identifiers (tagEpc) range over 1..MaxEpc, 0 is the empty one
MaxLookups == 2          \* calls of maybeVirtual.fetch / fetchExtraInfo explored
MaxClearedFetches == 1   \* the virtual memo is cleared only while at most this many
                         \* fetches were made, and a further fetch is made only
                         \* while none has retried
MaxSubstitute == 1       \* values a lookup endpoint answers range over 1..MaxSubstitute
MaxUrl == 2              \* extrasFetchUrl / virtualEpcsFetchUrl range over 1..MaxUrl
MaxDispatchFetches == 2  \* fetch() calls of deferred records findTagInfo returned
MaxChunks == 4           \* identifiers hold up to MaxChunks whole 8-character chunks
MaxEnumEntries == 2      \* entries of the values table of an enum definition
MaxNodes == 3            \* objects and arrays of a searched structure
MaxSegments == 3         \* segments of a lookup pattern
MaxItems == 2            \* elements of an array of a searched structure
MaxRules == 2            \* items of a text mapper
MaxOverlappedCalls == 1  \* bulk calls in flight during a clearAllCache call

\* ---- program constants ----
FixedSkew == 7           \* timeoutPeriod = options.periodInMs + 7
StaleFactor == 10        \* Date.now() - lastUpdated > timeoutPeriod * 10
AttemptCeiling == 5      \* if (attemptCount >= 5) throw

\* Granularity of the clock: callers and timers act at multiples of TickMs.
TickMs == FixedSkew
PeriodInMs == PeriodTicks * TickMs

timeoutPeriod == PeriodInMs + FixedSkew

\* lastUpdated = -Infinity: Date.now() - lastUpdated is larger than anything.
\* Every age above timeoutPeriod * 10 behaves alike, so the age saturates there.
Infinity == timeoutPeriod * StaleFactor + TickMs

VARIABLES
    batched,            \* const batched = [] as T[]
    pendingCallbacks,   \* const pendingCallbacks = [] (ids of registered callbacks)
    timeout,            \* let timeout: "null", "armed" (timer pending) or "spent"
                        \* (handle of a timer that fired or was cleared; still truthy)
    timerLeft,          \* ms until the armed timer is due
    timers,             \* the runtime's table of timers: for every debounce timer of
                        \* the batcher that was set and neither fired nor was
                        \* cleared, the ms until it is due
    lastUpdatedAge,     \* Date.now() - lastUpdated
    flushes,            \* every invocation of the bulk callback, in order
    cbLog,              \* per completion callback: its invocations so far
    calls,              \* number of set / setNow / fetch calls made so far
    locked,             \* the AsyncLock named after the batcher id is held
    sinceSet,           \* observer: ms since the latest set call, -1 before the first
    streaming,          \* observer: every set so far came less than periodInMs
                        \* after the set before it
    window,             \* observer: the current burst of set calls, each less than
                        \* periodInMs after the one before
    enqueued,           \* observer: the items pushed on the queue, in push order
    cache,              \* cachedBatchedItems[url].cache
    processedValues,    \* cachedBatchedItems[url].processedValues
    requests,           \* every Api.post of the bulk callback, in order
    fetches,            \* per call of processDeferredBatched: value and outcome
    batcherKind,        \* which batcher the batcher variables above describe:
                        \* "deferred" (cachedBatchedItems[url].batcher), "virtual"
                        \* (virtualLookupBatcher) or "extras" (extrasLookupBatcher)
    virtuallyProcessedTags, \* let virtuallyProcessedTags: memo of the virtual lookup
    extrasProcessedTags,    \* let extrasProcessedTags: memo of the extras lookup
    virtualLookupBatcher,   \* let virtualLookupBatcher: 0 for null, else the
                            \* virtualEpcsFetchUrl its bulk callback closed over
    extrasLookupBatcher,    \* let extrasLookupBatcher: 0 for null, else the
                            \* extrasFetchUrl its bulk callback closed over
    lookups,            \* per call of maybeVirtual.fetch / fetchExtraInfo: identifier,
                        \* attemptCount, callback waited for, outcome
    returned            \* what the step just taken returned, if it was a call of
                        \* findTagInfo

batcherVars == <<batched, pendingCallbacks, timeout, timerLeft, timers, lastUpdatedAge,
                 flushes, cbLog, calls, locked>>
observerVars == <<sinceSet, streaming, window, enqueued>>

deferredVars == <<cache, processedValues, requests, fetches>>

lookupVars == <<batcherKind, virtuallyProcessedTags, extrasProcessedTags,
                virtualLookupBatcher, extrasLookupBatcher, lookups>>

vars == <<batcherVars, observerVars, deferredVars, lookupVars, returned>>

\* No call of findTagInfo, of a virtual fetch or of fetchExtraInfo in this step.
NoCall == [tag |-> "none"]
NoLookup == UNCHANGED lookupVars /\ returned' = NoCall

Min(a, b) == IF a < b THEN a ELSE b

\* Completion callbacks are named by the number of the set call that registered
\* them; no run of the model registers more than this many.
MaxCallbacks == MaxCalls + MaxLookups * AttemptCeiling

\* Array.prototype.splice(0): the removed elements, and what stays behind.
Splice0(arr) == arr
Splice0RestKeepsAll(arr) == arr
Splice0Rest(arr) == <<>>

\* if (props) batched.push(props): a falsy item (0, "", undefined) is not queued.
PushAlways(arr, props) == Append(arr, props)
PushIfTruthy(arr, props) == IF props # 0 THEN Append(arr, props) ELSE arr

\* setTimeout(fn, ms) enters a timer in the table; clearTimeout(handle) takes
\* out the timer the handle names, and does nothing for null or for the handle
\* of a timer that fired or was cleared.  When clearTimeout is called, timeout
\* names the timer that is due in timerLeft ms.
RECURSIVE RemoveFirst(_, _)
RemoveFirst(ts, left) ==
    IF ts = <<>> THEN <<>>
    ELSE IF Head(ts) = left THEN Tail(ts)
    ELSE <<Head(ts)>> \o RemoveFirst(Tail(ts), left)

setTimeout(ts, ms) == Append(ts, ms)
clearTimeoutKeepsTimer(ts, handle, left) == ts
clearTimeout(ts, handle, left) == IF handle = "armed" THEN RemoveFirst(ts, left) ELSE ts

\* The flush decision of set.
FlushNowPendingOnly(tmo, age) ==
    tmo # "null" /\ age >= timeoutPeriod
FlushNowDebounceOnly(tmo, age) ==
    age > timeoutPeriod * StaleFactor
FlushNowEarly(tmo, age) ==
    \/ (tmo # "null" /\ age >= timeoutPeriod - 14)
    \/ age > timeoutPeriod * StaleFactor
FlushNow(tmo, age) ==
    \/ (tmo # "null" /\ age >= timeoutPeriod)
    \/ age > timeoutPeriod * StaleFactor

\* callBatcher(props, pendingCallbacks): lastUpdated = Date.now(); cb(props) is
\* invoked at once and settles later.
callBatcherDropsCallbacks(props, cbs, by) ==
    /\ lastUpdatedAge' = 0
    /\ flushes' = Append(flushes, [items |-> props, cbs |-> <<>>, by |-> by,
                                   phase |-> "running", threw |-> FALSE])
callBatcher(props, cbs, by) ==
    /\ lastUpdatedAge' = 0
    /\ flushes' = Append(flushes, [items |-> props, cbs |-> cbs, by |-> by,
                                   phase |-> "running", threw |-> FALSE])

BatcherInit ==
    /\ batched = <<>>
    /\ pendingCallbacks = <<>>
    /\ timeout = "null"
    /\ timerLeft = 0
    /\ timers = <<>>
    /\ lastUpdatedAge = Infinity
    /\ flushes = <<>>
    /\ cbLog = [c \in 1..MaxCallbacks |-> <<>>]
    /\ calls = 0
    /\ locked = FALSE

\* lockMethod: lock.acquire runs the method and releases the lock when the
\* value the method returns has been awaited.  set returns nothing: it calls
\* callBatcher without awaiting it, so the lock is free again when set is done,
\* whether or not a flush was started.
HeldAfterSetAwaitsFlush(flushing) == flushing
HeldAfterSet(flushing) == FALSE

\* set(props, cb) under lockMethod: the body is synchronous, so acquiring the
\* lock, the body and the release run as one step.
BatcherSet(props, hasCb) ==
    LET b1 == PushIfTruthy(batched, props)
        p1 == IF hasCb THEN Append(pendingCallbacks, calls + 1) ELSE pendingCallbacks
    IN  /\ ~locked
        /\ calls + 1 \in DOMAIN cbLog
        /\ calls' = calls + 1
        /\ locked' = HeldAfterSet(FlushNow(timeout, lastUpdatedAge))
        /\ cbLog' = cbLog
        /\ IF FlushNow(timeout, lastUpdatedAge)
           THEN /\ callBatcher(Splice0(b1), Splice0(p1), "set")
                /\ batched' = Splice0Rest(b1)
                /\ pendingCallbacks' = Splice0Rest(p1)
                /\ UNCHANGED <<timeout, timerLeft, timers>>
           ELSE /\ timeout' = "armed"
                /\ timerLeft' = timeoutPeriod
                /\ timers' = setTimeout(clearTimeout(timers, timeout, timerLeft),
                                        timeoutPeriod)
                /\ batched' = b1
                /\ pendingCallbacks' = p1
                /\ UNCHANGED <<lastUpdatedAge, flushes>>

\* The debounce timer armed by set comes due.
BatcherTimerFireSkipsEmpty ==
    /\ timeout = "armed"
    /\ timerLeft = 0
    /\ timeout' = "spent"
    /\ IF batched = <<>> /\ pendingCallbacks = <<>>
       THEN UNCHANGED <<lastUpdatedAge, flushes>>
       ELSE callBatcher(Splice0(batched), Splice0(pendingCallbacks), "timer")
    /\ batched' = Splice0Rest(batched)
    /\ pendingCallbacks' = Splice0Rest(pendingCallbacks)
    /\ timers' = RemoveFirst(timers, 0)
    /\ UNCHANGED <<timerLeft, cbLog, calls, locked>>
BatcherTimerFire ==
    /\ timeout = "armed"
    /\ timerLeft = 0
    /\ timeout' = "spent"
    /\ callBatcher(Splice0(batched), Splice0(pendingCallbacks), "timer")
    /\ batched' = Splice0Rest(batched)
    /\ pendingCallbacks' = Splice0Rest(pendingCallbacks)
    /\ timers' = RemoveFirst(timers, 0)
    /\ UNCHANGED <<timerLeft, cbLog, calls, locked>>

\* setNow(props): calls cb directly; no callbacks, lastUpdated untouched.
BatcherSetNowKeepsQueue(props) ==
    LET b1 == PushIfTruthy(batched, props)
    IN  /\ calls < MaxCalls
        /\ calls' = calls + 1
        /\ flushes' = Append(flushes, [items |-> Splice0(b1), cbs |-> <<>>,
                                       by |-> "setNow",
                                       phase |-> "running", threw |-> FALSE])
        /\ batched' = b1
        /\ UNCHANGED <<pendingCallbacks, timeout, timerLeft, timers, lastUpdatedAge, cbLog,
                       locked>>
BatcherSetNow(props) ==
    LET b1 == PushIfTruthy(batched, props)
    IN  /\ calls < MaxCalls
        /\ calls' = calls + 1
        /\ flushes' = Append(flushes, [items |-> Splice0(b1), cbs |-> <<>>,
                                       by |-> "setNow",
                                       phase |-> "running", threw |-> FALSE])
        /\ batched' = Splice0Rest(b1)
        /\ UNCHANGED <<pendingCallbacks, timeout, timerLeft, timers, lastUpdatedAge, cbLog,
                       locked>>

\* clearTimeoutHandler(): clearTimeout(timeout); the handle itself is kept.
BatcherClearTimeoutHandlerDropsQueue ==
    /\ timeout = "armed"
    /\ timeout' = "spent"
    /\ timerLeft' = 0
    /\ timers' = clearTimeout(timers, timeout, timerLeft)
    /\ batched' = <<>>
    /\ pendingCallbacks' = <<>>
    /\ UNCHANGED <<lastUpdatedAge, flushes, cbLog, calls, locked>>
BatcherClearTimeoutHandler ==
    /\ timeout = "armed"
    /\ timeout' = "spent"
    /\ timerLeft' = 0
    /\ timers' = clearTimeout(timers, timeout, timerLeft)
    /\ UNCHANGED <<batched, pendingCallbacks, lastUpdatedAge, flushes, cbLog, calls,
                   locked>>

\* The bulk callback of flush i settles: await cb(props) returns or throws.
\* callBatcher then hands the snapshot to callPendingCallbacks (null or error);
\* setNow only logs.
BatcherSettle(i, threw) ==
    /\ i \in 1..Len(flushes)
    /\ flushes[i].phase = "running"
    /\ flushes' = [flushes EXCEPT
                      ![i].phase = IF flushes[i].by = "setNow" THEN "done" ELSE "settled",
                      ![i].threw = threw]
    /\ UNCHANGED <<batched, pendingCallbacks, timeout, timerLeft, timers, lastUpdatedAge,
                   cbLog, calls, locked>>

\* callPendingCallbacks(error, snapshot): 57 ms later every callback of the
\* snapshot is invoked, in order, with the error if there is one.
InvokeAllDropsError(log, cbs, error, i) ==
    [c \in DOMAIN log |->
        IF \E k \in 1..Len(cbs) : cbs[k] = c
        THEN Append(log[c], [error |-> FALSE, flush |-> i])
        ELSE log[c]]
InvokeAll(log, cbs, error, i) ==
    [c \in DOMAIN log |->
        IF \E k \in 1..Len(cbs) : cbs[k] = c
        THEN Append(log[c], [error |-> error, flush |-> i])
        ELSE log[c]]

BatcherCallPendingCallbacks(i) ==
    /\ i \in 1..Len(flushes)
    /\ flushes[i].phase = "settled"
    /\ cbLog' = InvokeAll(cbLog, Splice0(flushes[i].cbs), flushes[i].threw, i)
    /\ flushes' = [flushes EXCEPT ![i].phase = "done"]
    /\ UNCHANGED <<batched, pendingCallbacks, timeout, timerLeft, timers, lastUpdatedAge,
                   calls, locked>>

\* Time passes.  A due timer fires before time moves on.  While a timer is
\* armed or the last flush is younger than timeoutPeriod the clock advances by
\* TickMs; an idle batcher is next looked at when its age reaches the second
\* threshold of set (timeoutPeriod * StaleFactor), and then beyond it.
NextAge(age, armed) ==
    IF armed \/ age < timeoutPeriod THEN Min(age + TickMs, Infinity)
    ELSE IF age < timeoutPeriod * StaleFactor THEN timeoutPeriod * StaleFactor
    ELSE Infinity

\* Time is followed as long as a further set call can come.
CallsToCome ==
    IF batcherKind = "deferred" THEN calls < MaxCalls
    ELSE \E l \in DOMAIN lookups : lookups[l].status \in {"none", "object", "waiting"}

BatcherTick ==
    /\ ~(timeout = "armed" /\ timerLeft = 0)
    /\ \/ CallsToCome
       \/ timeout = "armed"
    /\ \/ lastUpdatedAge < Infinity
       \/ timeout = "armed"
    /\ lastUpdatedAge' = NextAge(lastUpdatedAge, timeout = "armed")
    /\ timerLeft' = IF timeout = "armed" THEN timerLeft - TickMs ELSE timerLeft
    /\ timers' = [k \in DOMAIN timers |->
                     IF timers[k] > TickMs THEN timers[k] - TickMs ELSE 0]
    /\ UNCHANGED <<batched, pendingCallbacks, timeout, flushes, cbLog, calls, locked>>

\* ---- processDeferredBatched: one batched endpoint (one fetchUrlPath) ----

\* A record of the remote list: key is what batchUniqueMatchMapper selects,
\* val is the leaf valueMapper ("[].<field>") leads to.
Records == [key : 1..MaxKey, val : 1..MaxValue]
NoRecord == [key |-> 0, val |-> 0]
ContentValues == 0..MaxValue

RECURSIVE SeqsUpTo(_, _)
SeqsUpTo(S, n) ==
    IF n = 0 THEN {<<>>}
    ELSE LET shorter == SeqsUpTo(S, n - 1)
         IN  shorter \cup {Append(q, x) : q \in shorter, x \in S}

\* What recursiveSelect(fetchMapper, response) can be: a list of records, or
\* something that is not an array.
Responses == SeqsUpTo(Records, MaxResponse)

Has(sq, x) == \E k \in 1..Len(sq) : sq[k] = x

\* for (const v of values) if (!processedValues.find(..) && !filteredValues.find(..))
RECURSIVE FilterInto(_, _, _)
FilterInto(acc, values, processed) ==
    IF values = <<>> THEN acc
    ELSE LET v == Head(values)
         IN  FilterInto(IF ~Has(processed, v) /\ ~Has(acc, v) THEN Append(acc, v) ELSE acc,
                        Tail(values), processed)

filteredValuesKeepsRepeats(values, processed) ==
    SelectSeq(values, LAMBDA v : ~Has(processed, v))
filteredValues(values, processed) == FilterInto(<<>>, values, processed)

\* for (const item of result) if (!cache.find(same unique key)) cache.push(item)
RECURSIVE MergeInto(_, _)
MergeInto(c, result) ==
    IF result = <<>> THEN c
    ELSE LET item == Head(result)
         IN  MergeInto(IF \E k \in 1..Len(c) : c[k].key = item.key THEN c
                       ELSE Append(c, item),
                       Tail(result))

mergeResultPushesAll(c, result) == c \o result
mergeResult(c, result) == MergeInto(c, result)

\* recursiveLookup(valueMapper, contentValue, cache): the elements are tried in
\* array order and the first one whose leaf equals the value is returned.
lookForValueInCacheMisses(c, v) == NoRecord
lookForValueInCache(c, v) ==
    IF \E k \in 1..Len(c) : c[k].val = v
    THEN c[CHOOSE k \in 1..Len(c) : c[k].val = v /\ \A j \in 1..(k - 1) : c[j].val # v]
    ELSE NoRecord

DeferredInit ==
    /\ cache = <<>>
    /\ processedValues = <<>>
    /\ requests = <<>>
    /\ fetches = [c \in 1..MaxCalls |-> [v |-> 0, status |-> "none", result |-> NoRecord]]

\* The bulk callback starts with the flush: it filters the snapshot and, if a
\* value is left, posts one request.
BulkCallbackStart ==
    IF Len(flushes') > Len(flushes)
    THEN LET i == Len(flushes')
             fv == filteredValues(flushes'[i].items, processedValues)
         IN  requests' = IF fv # <<>>
                         THEN Append(requests, [flush |-> i, values |-> fv,
                                                known |-> processedValues,
                                                concurrent |-> \E r \in 1..Len(requests) :
                                                    requests[r].state = "pending",
                                                state |-> "pending",
                                                dropped |-> FALSE,
                                                cleared |-> FALSE])
                         ELSE requests
    ELSE requests' = requests

HasRequest(i) == \E r \in 1..Len(requests) : requests[r].flush = i

\* processDeferredBatched({contentValue}) up to its first await.
Fetch ==
    \E v \in ContentValues :
        LET id == calls + 1
            found == lookForValueInCache(cache, v)
        IN  /\ calls < MaxCalls
            /\ NoLookup /\ UNCHANGED <<observerVars, cache, processedValues>>
            /\ IF found # NoRecord
               THEN /\ fetches' = [fetches EXCEPT ![id] =
                                      [v |-> v, status |-> "hit", result |-> found]]
                    /\ calls' = id
                    /\ UNCHANGED <<batched, pendingCallbacks, timeout, timerLeft, timers,
                                   lastUpdatedAge, flushes, cbLog, locked, requests>>
               ELSE IF ~Has(processedValues, v)
               THEN /\ BatcherSet(v, TRUE)
                    /\ BulkCallbackStart
                    /\ fetches' = [fetches EXCEPT ![id] =
                                      [v |-> v, status |-> "pending", result |-> NoRecord]]
               ELSE /\ fetches' = [fetches EXCEPT ![id] =
                                      [v |-> v, status |-> "null", result |-> NoRecord]]
                    /\ calls' = id
                    /\ UNCHANGED <<batched, pendingCallbacks, timeout, timerLeft, timers,
                                   lastUpdatedAge, flushes, cbLog, locked, requests>>

DeferredTimerFire ==
    /\ BatcherTimerFire
    /\ BulkCallbackStart
    /\ NoLookup /\ UNCHANGED <<observerVars, cache, processedValues, fetches>>

\* The bulk callback had nothing to request and returns.
BulkReturn ==
    \E i \in 1..Len(flushes) :
        /\ ~HasRequest(i)
        /\ BatcherSettle(i, FALSE)
        /\ NoLookup /\ UNCHANGED <<observerVars, deferredVars>>

\* Api.post resolves: the list selected from the response is merged into the
\* cache of the endpoint, and the bulk callback returns.
RemoteRespond ==
    \E r \in 1..Len(requests), result \in Responses, isArray \in BOOLEAN :
        /\ requests[r].state = "pending"
        /\ isArray \/ result = <<>>
        /\ cache' = IF isArray THEN mergeResult(cache, result) ELSE cache
        /\ requests' = [requests EXCEPT
                          ![r].state = "answered",
                          ![r].dropped = (isArray /\
                                          Len(result) > Len(cache') - Len(cache))]
        /\ BatcherSettle(requests[r].flush, FALSE)
        /\ NoLookup /\ UNCHANGED <<observerVars, processedValues, fetches>>

\* Api.post rejects: the bulk callback throws.
RemoteFail ==
    \E r \in 1..Len(requests) :
        /\ requests[r].state = "pending"
        /\ requests' = [requests EXCEPT ![r].state = "failed"]
        /\ BatcherSettle(requests[r].flush, TRUE)
        /\ NoLookup /\ UNCHANGED <<observerVars, cache, processedValues, fetches>>

\* The completion callback of a fetch: reject on error (the resolve calls that
\* follow have no effect on a rejected promise), else probe the cache once
\* more and resolve with the record or null.
deferredAfterFlushSwallowsError(f, error, found) ==
    IF found # NoRecord THEN [f EXCEPT !.status = "found", !.result = found]
    ELSE [f EXCEPT !.status = "null"]
deferredAfterFlushWaitsOn(f, error, found) ==
    IF error THEN [f EXCEPT !.status = "rejected"]
    ELSE IF found # NoRecord THEN [f EXCEPT !.status = "found", !.result = found]
    ELSE f
deferredAfterFlush(f, error, found) ==
    IF error THEN [f EXCEPT !.status = "rejected"]
    ELSE IF found # NoRecord THEN [f EXCEPT !.status = "found", !.result = found]
    ELSE [f EXCEPT !.status = "null"]

DeferredCallPendingCallbacks ==
    \E i \in 1..Len(flushes) :
        /\ BatcherCallPendingCallbacks(i)
        /\ fetches' = [c \in DOMAIN fetches |->
              IF Has(flushes[i].cbs, c)
              THEN deferredAfterFlush(fetches[c], flushes[i].threw,
                                      lookForValueInCache(cache, fetches[c].v))
              ELSE fetches[c]]
        /\ NoLookup /\ UNCHANGED <<observerVars, cache, processedValues, requests>>

\* The stores the clear operations work on: the record list and
\* processedValues of the batched endpoint and the two memos.
StoresNow == [cache |-> cache, processedValues |-> processedValues,
              virtuallyProcessedTags |-> virtuallyProcessedTags,
              extrasProcessedTags |-> extrasProcessedTags]

\* clearCachedBatchedItems(): fresh cache and processedValues, same batcher.
clearCachedBatchedItems(st) == [st EXCEPT !.cache = <<>>, !.processedValues = <<>>]

ClearCachedBatchedItems ==
    /\ calls > 0
    /\ cache' = clearCachedBatchedItems(StoresNow).cache
    /\ processedValues' = clearCachedBatchedItems(StoresNow).processedValues
    /\ NoLookup /\ UNCHANGED <<batcherVars, observerVars, requests, fetches>>

DeferredTick == BatcherTick /\ NoLookup /\ UNCHANGED <<observerVars, deferredVars>>

DeferredNext ==
    \/ Fetch
    \/ DeferredTimerFire
    \/ BulkReturn
    \/ RemoteRespond
    \/ RemoteFail
    \/ DeferredCallPendingCallbacks
    \/ ClearCachedBatchedItems
    \/ DeferredTick

\* ---- findTagInfo: dispatch ----

Epcs == 1..MaxEpc

\* An entry of virtuallyProcessedTags / extrasProcessedTags; NoEntry stands for
\* a key the memo object does not have.  The value of a found entry is the
\* substitute (contentId, contentValue) pair, or the extras record.
NoEntry == [status |-> "none", value |-> 0]
NotFoundEntry == [status |-> "not-found", value |-> 0]
FoundEntry(v) == [status |-> "found", value |-> v]

\* createObject(): an object without keys.
createObject == [epc \in Epcs |-> NoEntry]

\* What tagContentTypes.find(...) yields for a contentTypeId, as far as the
\* dispatch looks at it: the type of the definition ("none" if no definition
\* has that id) and, for an enum or a fetched list, whether its values / its
\* data hold the content value.
Definitions ==
    {[type |-> t, hit |-> FALSE] :
        t \in {"none", "legacy", "deferred", "enum", "fetchedList", "fixed", "manual"}}
    \cup {[type |-> t, hit |-> TRUE] : t \in {"enum", "fetchedList"}}

NoDefinition == [type |-> "none", hit |-> FALSE]

Null == [tag |-> "null", type |-> "null", numbers |-> [from |-> "none", id |-> 0],
         fetch |-> FALSE, fetchExtraInfo |-> FALSE]

\* {type: "maybeVirtual", fetch}
MaybeVirtualObject(tagEpc) ==
    [tag |-> "maybeVirtual", type |-> "maybeVirtual",
     numbers |-> [from |-> "epc", id |-> tagEpc],
     fetch |-> TRUE, fetchExtraInfo |-> FALSE]

\* getTagInfoFromValuesWithoutExtraFetcher: the type of the record, or "null".
getTagInfoFromValuesWithoutExtraFetcher(def) ==
    IF def.type \in {"deferred", "fixed", "manual"} THEN def.type
    ELSE IF def.type \in {"enum", "fetchedList"} /\ def.hit THEN def.type
    ELSE "null"

\* getTagInfoFromValues: the record for (contentId, contentValue) = numbers, with
\* fetch on a deferred record and fetchExtraInfo if an extras batcher exists.
getTagInfoFromValues(def, numbers, apiClient, extrasBatcher) ==
    LET t == getTagInfoFromValuesWithoutExtraFetcher(def)
    IN  IF t = "null" THEN Null
        ELSE [tag |-> "record", type |-> t, numbers |-> numbers,
              fetch |-> (t = "deferred" /\ apiClient),
              fetchExtraInfo |-> (apiClient /\ extrasBatcher # 0)]

\* maybeVirtual(): decided by the memo entry of the identifier alone.
maybeVirtualFromOwnNumbers(tagEpc, configured, tagVirtualInfo, substituteDef, apiClient, extrasBatcher) ==
    IF ~configured THEN Null
    ELSE IF tagVirtualInfo = NoEntry THEN MaybeVirtualObject(tagEpc)
    ELSE IF tagVirtualInfo.status = "not-found" THEN Null
    ELSE getTagInfoFromValues(substituteDef, [from |-> "epc", id |-> tagEpc],
                              apiClient, extrasBatcher)
maybeVirtual(tagEpc, configured, tagVirtualInfo, substituteDef, apiClient, extrasBatcher) ==
    IF ~configured THEN Null
    ELSE IF tagVirtualInfo = NoEntry THEN MaybeVirtualObject(tagEpc)
    ELSE IF tagVirtualInfo.status = "not-found" THEN Null
    ELSE getTagInfoFromValues(substituteDef, [from |-> "memo", id |-> tagVirtualInfo.value],
                              apiClient, extrasBatcher)

\* if (!tagEpc || !tagContentTypes) return null, and if (numbers) around the
\* dispatch: whether findTagInfo gets as far as looking for a definition.
hasNumbersIgnoresDecode(tagEpc, decodable) == tagEpc # 0
hasNumbers(tagEpc, decodable) == tagEpc # 0 /\ decodable

\* findTagInfo(props): the value it returns and the two batchers after the
\* call.  tagEpc 0 is the empty identifier; decodable says whether
\* getTagNumbers(tagEpc) yields numbers; def is the definition their
\* contentTypeId selects, substituteDef the one the substitute pair of the memo
\* selects; a url of 0 stands for a lookup that is not configured.
findTagInfo(tagEpc, decodable, def, substituteDef, apiClient, extrasFetchUrl, virtualEpcsFetchUrl) ==
    LET extras1 == IF tagEpc # 0 /\ apiClient /\ extrasFetchUrl # 0
                      /\ extrasLookupBatcher = 0
                   THEN extrasFetchUrl ELSE extrasLookupBatcher
        own == getTagInfoFromValues(def, [from |-> "epc", id |-> tagEpc], apiClient,
                                    extras1)
        virtualPath == hasNumbers(tagEpc, decodable) /\ own = Null
        configured == apiClient /\ virtualEpcsFetchUrl # 0
        virtual1 == IF virtualPath /\ configured /\ virtualLookupBatcher = 0
                    THEN virtualEpcsFetchUrl ELSE virtualLookupBatcher
        result == IF ~hasNumbers(tagEpc, decodable) THEN Null
                  ELSE IF own # Null THEN own
                  ELSE maybeVirtual(tagEpc, configured, virtuallyProcessedTags[tagEpc],
                                    substituteDef, apiClient, extras1)
    IN  [result |-> result, extrasLookupBatcher |-> extras1,
         virtualLookupBatcher |-> virtual1, virtualPath |-> virtualPath /\ configured]

FixedDefinition == [type |-> "fixed", hit |-> FALSE]

\* The definitions the substitute pair of an identifier selects here: one that
\* yields a record and none.  They only matter when the memo holds a pair.
SubstituteDefinitions(tagEpc) ==
    IF virtuallyProcessedTags[tagEpc].status = "found"
    THEN {FixedDefinition, NoDefinition}
    ELSE {NoDefinition}

\* ---- findTagInfo: the virtual lookup and the extras lookup ----

\* What a lookup endpoint answers per identifier: 0 if the answer has no entry
\* for it, else the value.
LookupResults == [Epcs -> 0..MaxSubstitute]

\* for (const epc of epcs) if (!memo[epc] && !filteredEpcs has epc) add epc
RECURSIVE FilterEpcsInto(_, _, _)
FilterEpcsInto(acc, epcs, memo) ==
    IF epcs = <<>> THEN acc
    ELSE LET epc == Head(epcs)
         IN  FilterEpcsInto(IF memo[epc] = NoEntry /\ ~Has(acc, epc)
                            THEN Append(acc, epc) ELSE acc,
                            Tail(epcs), memo)

filteredEpcs(epcs, memo) == FilterEpcsInto(<<>>, epcs, memo)

PostRequest(i, values) ==
    Append(requests, [flush |-> i, values |-> values, known |-> <<>>,
                      concurrent |-> \E r \in 1..Len(requests) :
                          requests[r].state = "pending",
                      state |-> "pending", dropped |-> FALSE, cleared |-> FALSE])

\* The bulk callback of virtualLookupBatcher up to its await: a request is
\* posted if an identifier of the snapshot is not in the memo.
VirtualBulkCallbackStart ==
    IF Len(flushes') > Len(flushes)
    THEN LET i == Len(flushes')
             epcs == flushes'[i].items
             fe == filteredEpcs(epcs, virtuallyProcessedTags)
         IN  requests' = IF epcs # <<>> /\ fe # <<>> THEN PostRequest(i, fe) ELSE requests
    ELSE requests' = requests

\* The bulk callback of extrasLookupBatcher up to its await: a request is
\* posted whenever the snapshot is not empty, also with no identifier left.
ExtrasBulkCallbackStart ==
    IF Len(flushes') > Len(flushes)
    THEN LET i == Len(flushes')
             epcs == flushes'[i].items
             fe == filteredEpcs(epcs, extrasProcessedTags)
         IN  requests' = IF epcs # <<>> THEN PostRequest(i, fe) ELSE requests
    ELSE requests' = requests

\* virtual: every key of results becomes found; every identifier of the
\* snapshot (epcs, not only the requested ones) that results lacks becomes
\* not-found.
virtualMemoAfter(memo, epcs, results) ==
    [epc \in Epcs |->
        IF results[epc] # 0 THEN FoundEntry(results[epc])
        ELSE IF Has(epcs, epc) THEN NotFoundEntry
        ELSE memo[epc]]

\* extras: every requested identifier that tagsExtras lacks becomes not-found;
\* every key of tagsExtras becomes found.
extrasMemoAfter(memo, requested, tagsExtras) ==
    [epc \in Epcs |->
        IF tagsExtras[epc] # 0 THEN FoundEntry(tagsExtras[epc])
        ELSE IF Has(requested, epc) THEN NotFoundEntry
        ELSE memo[epc]]

\* A call of findTagInfo and of the fetch / fetchExtraInfo of what it returned:
\* result is what findTagInfo returned, status "object" says that it carries
\* the function and that the function has not been called yet.
NoLookupCall == [epc |-> 0, result |-> Null, attemptCount |-> 0, status |-> "none",
                 cb |-> 0, sets |-> 0, value |-> 0]

LookupInit ==
    /\ virtuallyProcessedTags = createObject
    /\ extrasProcessedTags = createObject
    /\ virtualLookupBatcher = 0
    /\ extrasLookupBatcher = 0
    /\ lookups = [l \in 1..MaxLookups |-> NoLookupCall]
    /\ returned = NoCall

Started == Cardinality({l \in DOMAIN lookups : lookups[l].status # "none"})

\* A virtual fetch is between its callback and its recursive call: nothing
\* else runs until the call is made.
Retrying == \E l \in DOMAIN lookups : lookups[l].status = "retrying"

LookupFrame ==
    /\ returned' = NoCall
    /\ UNCHANGED <<observerVars, cache, processedValues, fetches, batcherKind,
                   virtualLookupBatcher, extrasLookupBatcher>>

\* The definitions getTagInfoFromValues has no record for.
UnresolvedDefinitions ==
    {def \in Definitions : getTagInfoFromValuesWithoutExtraFetcher(def) = "null"}

\* findTagInfo for an identifier whose own numbers give no record, with the
\* virtual lookup configured (and no extras lookup).
ResolveVirtual ==
    \E tagEpc \in Epcs, def \in UnresolvedDefinitions :
        \E substituteDef \in SubstituteDefinitions(tagEpc) :
            LET out == findTagInfo(tagEpc, TRUE, def, substituteDef, TRUE, 0, 1)
            IN  /\ batcherKind = "virtual"
                /\ ~Retrying
                /\ Started < MaxLookups
                /\ Started >= MaxClearedFetches =>
                      \A k \in DOMAIN lookups : lookups[k].attemptCount = 0
                /\ virtualLookupBatcher' = out.virtualLookupBatcher
                /\ extrasLookupBatcher' = out.extrasLookupBatcher
                /\ lookups' = [lookups EXCEPT ![Started + 1] =
                      [NoLookupCall EXCEPT
                          !.epc = tagEpc,
                          !.result = out.result,
                          !.status = IF out.result.fetch THEN "object" ELSE "resolved"]]
                /\ returned' = NoCall
                /\ UNCHANGED <<batcherVars, observerVars, deferredVars, batcherKind,
                               virtuallyProcessedTags, extrasProcessedTags>>

\* maybeVirtual.fetch(now, attemptCount), from its call to its await or return.
VirtualFetchAttempt(l, attemptCount) ==
    LET epc == lookups[l].epc
        tagVirtualInfo == virtuallyProcessedTags[epc]
    IN  IF attemptCount >= AttemptCeiling \/ tagVirtualInfo # NoEntry
        THEN /\ lookups' = [lookups EXCEPT ![l] =
                    IF attemptCount >= AttemptCeiling
                    THEN [@ EXCEPT !.status = "failed"]
                    ELSE IF tagVirtualInfo.status = "not-found"
                    THEN [@ EXCEPT !.status = "null"]
                    ELSE [@ EXCEPT !.status = "found", !.value = tagVirtualInfo.value]]
             /\ UNCHANGED <<batcherVars, requests>>
        ELSE /\ BatcherSet(epc, TRUE)
             /\ VirtualBulkCallbackStart
             /\ lookups' = [lookups EXCEPT ![l] =
                    [@ EXCEPT !.status = "waiting", !.cb = calls + 1, !.sets = @ + 1]]

\* fetch() of the object findTagInfo returned.
VirtualFetch ==
    \E l \in DOMAIN lookups :
        /\ batcherKind = "virtual"
        /\ ~Retrying
        /\ lookups[l].status = "object"
        /\ VirtualFetchAttempt(l, 0)
        /\ LookupFrame
        /\ UNCHANGED <<virtuallyProcessedTags, extrasProcessedTags>>

\* return this.fetch(now, attemptCount + 1)
VirtualRetry ==
    \E l \in DOMAIN lookups :
        /\ lookups[l].status = "retrying"
        /\ VirtualFetchAttempt(l, lookups[l].attemptCount)
        /\ LookupFrame
        /\ UNCHANGED <<virtuallyProcessedTags, extrasProcessedTags>>

\* What the fetch does when its completion callback is invoked.
virtualAfterFlushSameAttempt(lk, error, tagVirtualInfo) ==
    IF error THEN [lk EXCEPT !.status = "rejected"]
    ELSE IF tagVirtualInfo = NoEntry THEN [lk EXCEPT !.status = "retrying"]
    ELSE IF tagVirtualInfo.status = "not-found" THEN [lk EXCEPT !.status = "null"]
    ELSE [lk EXCEPT !.status = "found", !.value = tagVirtualInfo.value]
virtualAfterFlush(lk, error, tagVirtualInfo) ==
    IF error THEN [lk EXCEPT !.status = "rejected"]
    ELSE IF tagVirtualInfo = NoEntry
    THEN [lk EXCEPT !.status = "retrying", !.attemptCount = @ + 1]
    ELSE IF tagVirtualInfo.status = "not-found" THEN [lk EXCEPT !.status = "null"]
    ELSE [lk EXCEPT !.status = "found", !.value = tagVirtualInfo.value]

VirtualCallPendingCallbacks ==
    \E i \in 1..Len(flushes) :
        /\ batcherKind = "virtual"
        /\ ~Retrying
        /\ BatcherCallPendingCallbacks(i)
        /\ lookups' = [l \in DOMAIN lookups |->
              IF lookups[l].status = "waiting" /\ Has(flushes[i].cbs, lookups[l].cb)
              THEN virtualAfterFlush(lookups[l], flushes[i].threw,
                                     virtuallyProcessedTags[lookups[l].epc])
              ELSE lookups[l]]
        /\ LookupFrame
        /\ UNCHANGED <<virtuallyProcessedTags, extrasProcessedTags, requests>>

VirtualTimerFire ==
    /\ batcherKind = "virtual"
    /\ ~Retrying
    /\ BatcherTimerFire
    /\ VirtualBulkCallbackStart
    /\ LookupFrame
    /\ UNCHANGED <<virtuallyProcessedTags, extrasProcessedTags, lookups>>

\* apiClient.post resolves with data.results: the memo is written.
VirtualRespondFenced ==
    \E r \in 1..Len(requests), results \in LookupResults :
        /\ batcherKind = "virtual"
        /\ ~Retrying
        /\ requests[r].state = "pending"
        /\ virtuallyProcessedTags' =
              IF requests[r].cleared THEN virtuallyProcessedTags
              ELSE virtualMemoAfter(virtuallyProcessedTags,
                                    flushes[requests[r].flush].items, results)
        /\ requests' = [requests EXCEPT ![r].state = "answered"]
        /\ BatcherSettle(requests[r].flush, FALSE)
        /\ LookupFrame
        /\ UNCHANGED <<extrasProcessedTags, lookups>>
VirtualRespond ==
    \E r \in 1..Len(requests), results \in LookupResults :
        /\ batcherKind = "virtual"
        /\ ~Retrying
        /\ requests[r].state = "pending"
        /\ virtuallyProcessedTags' =
              virtualMemoAfter(virtuallyProcessedTags, flushes[requests[r].flush].items,
                               results)
        /\ requests' = [requests EXCEPT ![r].state = "answered"]
        /\ BatcherSettle(requests[r].flush, FALSE)
        /\ LookupFrame
        /\ UNCHANGED <<extrasProcessedTags, lookups>>

\* findTagInfo for an identifier of a fixed content type, with the extras
\* lookup configured (and no virtual lookup).
ResolveExtras ==
    \E tagEpc \in Epcs :
        LET out == findTagInfo(tagEpc, TRUE, FixedDefinition, NoDefinition, TRUE, 1, 0)
        IN  /\ batcherKind = "extras"
            /\ Started < MaxLookups
            /\ virtualLookupBatcher' = out.virtualLookupBatcher
            /\ extrasLookupBatcher' = out.extrasLookupBatcher
            /\ lookups' = [lookups EXCEPT ![Started + 1] =
                  [NoLookupCall EXCEPT
                      !.epc = tagEpc,
                      !.result = out.result,
                      !.status = IF out.result.fetchExtraInfo THEN "object"
                                 ELSE "resolved"]]
            /\ returned' = NoCall
            /\ UNCHANGED <<batcherVars, observerVars, deferredVars, batcherKind,
                           virtuallyProcessedTags, extrasProcessedTags>>

\* fetchExtraInfo() of the record findTagInfo returned, from its call to its
\* await or return.
ExtrasFetch ==
    \E l \in DOMAIN lookups :
        LET epc == lookups[l].epc
            tagExtra == extrasProcessedTags[epc]
        IN  /\ batcherKind = "extras"
            /\ lookups[l].status = "object"
            /\ IF tagExtra # NoEntry
               THEN /\ lookups' = [lookups EXCEPT ![l] =
                          [@ EXCEPT !.status = IF tagExtra.status = "found"
                                               THEN "found" ELSE "null",
                                    !.value = tagExtra.value]]
                    /\ UNCHANGED <<batcherVars, requests>>
               ELSE /\ BatcherSet(epc, TRUE)
                    /\ ExtrasBulkCallbackStart
                    /\ lookups' = [lookups EXCEPT ![l] =
                          [@ EXCEPT !.status = "waiting", !.cb = calls + 1,
                                    !.sets = @ + 1]]
            /\ LookupFrame
            /\ UNCHANGED <<virtuallyProcessedTags, extrasProcessedTags>>

\* What fetchExtraInfo does when its completion callback is invoked:
\* reject(error) on an error, else the memo is read once.
extrasAfterFlush(lk, error, tagExtra) ==
    IF error THEN [lk EXCEPT !.status = "rejected"]
    ELSE IF tagExtra.status = "found"
    THEN [lk EXCEPT !.status = "found", !.value = tagExtra.value]
    ELSE [lk EXCEPT !.status = "null"]

ExtrasCallPendingCallbacks ==
    \E i \in 1..Len(flushes) :
        /\ batcherKind = "extras"
        /\ BatcherCallPendingCallbacks(i)
        /\ lookups' = [l \in DOMAIN lookups |->
              IF lookups[l].status = "waiting" /\ Has(flushes[i].cbs, lookups[l].cb)
              THEN extrasAfterFlush(lookups[l], flushes[i].threw,
                                    extrasProcessedTags[lookups[l].epc])
              ELSE lookups[l]]
        /\ LookupFrame
        /\ UNCHANGED <<virtuallyProcessedTags, extrasProcessedTags, requests>>

ExtrasTimerFire ==
    /\ batcherKind = "extras"
    /\ BatcherTimerFire
    /\ ExtrasBulkCallbackStart
    /\ LookupFrame
    /\ UNCHANGED <<virtuallyProcessedTags, extrasProcessedTags, lookups>>

\* apiClient.post resolves and the selected list is reduced to tagsExtras:
\* the memo is written.
ExtrasRespond ==
    \E r \in 1..Len(requests), tagsExtras \in LookupResults :
        /\ batcherKind = "extras"
        /\ requests[r].state = "pending"
        /\ extrasProcessedTags' =
              extrasMemoAfter(extrasProcessedTags, requests[r].values, tagsExtras)
        /\ requests' = [requests EXCEPT ![r].state = "answered"]
        /\ BatcherSettle(requests[r].flush, FALSE)
        /\ LookupFrame
        /\ UNCHANGED <<virtuallyProcessedTags, lookups>>

\* apiClient.post rejects: the bulk callback throws before it writes the memo.
LookupRemoteFail ==
    \E r \in 1..Len(requests) :
        /\ batcherKind # "deferred"
        /\ ~Retrying
        /\ requests[r].state = "pending"
        /\ requests' = [requests EXCEPT ![r].state = "failed"]
        /\ BatcherSettle(requests[r].flush, TRUE)
        /\ LookupFrame
        /\ UNCHANGED <<virtuallyProcessedTags, extrasProcessedTags, lookups>>

\* The response lacks the expected part (data.results is undefined, or the
\* selected extras list is): results[epc] / .reduce throws a TypeError before
\* the memo is written.
LookupRemoteMalformed ==
    \E r \in 1..Len(requests) :
        /\ batcherKind # "deferred"
        /\ ~Retrying
        /\ requests[r].state = "pending"
        /\ requests' = [requests EXCEPT ![r].state = "malformed"]
        /\ BatcherSettle(requests[r].flush, TRUE)
        /\ LookupFrame
        /\ UNCHANGED <<virtuallyProcessedTags, extrasProcessedTags, lookups>>

\* The bulk callback had nothing to request and returns.
LookupBulkReturn ==
    \E i \in 1..Len(flushes) :
        /\ batcherKind # "deferred"
        /\ ~Retrying
        /\ ~HasRequest(i)
        /\ BatcherSettle(i, FALSE)
        /\ LookupFrame
        /\ UNCHANGED <<virtuallyProcessedTags, extrasProcessedTags, lookups, requests>>

\* clearVirtualTagsCache() / clearExtrasTagsCache(): a fresh memo object.
clearVirtualTagsCacheAndExtras(st) ==
    [st EXCEPT !.virtuallyProcessedTags = createObject,
               !.extrasProcessedTags = createObject]
clearVirtualTagsCache(st) == [st EXCEPT !.virtuallyProcessedTags = createObject]

clearExtrasTagsCache(st) == [st EXCEPT !.extrasProcessedTags = createObject]

\* clearAllCache(): the three clears, one after the other, without an await.
clearAllCache(st) ==
    clearExtrasTagsCache(clearCachedBatchedItems(clearVirtualTagsCache(st)))

ClearVirtualTagsCache ==
    /\ batcherKind = "virtual"
    /\ ~Retrying
    /\ Started <= MaxClearedFetches
    /\ virtuallyProcessedTags # createObject
    /\ virtuallyProcessedTags' = clearVirtualTagsCache(StoresNow).virtuallyProcessedTags
    /\ LookupFrame
    /\ UNCHANGED <<batcherVars, requests, extrasProcessedTags, lookups>>

ClearExtrasTagsCache ==
    /\ batcherKind = "extras"
    /\ extrasProcessedTags # createObject
    /\ extrasProcessedTags' = clearExtrasTagsCache(StoresNow).extrasProcessedTags
    /\ LookupFrame
    /\ UNCHANGED <<batcherVars, requests, virtuallyProcessedTags, lookups>>

LookupTick ==
    /\ batcherKind # "deferred"
    /\ ~Retrying
    /\ BatcherTick
    /\ LookupFrame
    /\ UNCHANGED <<virtuallyProcessedTags, extrasProcessedTags, lookups, requests>>

VirtualNext ==
    \/ ResolveVirtual
    \/ VirtualFetch
    \/ VirtualRetry
    \/ VirtualTimerFire
    \/ VirtualRespond
    \/ VirtualCallPendingCallbacks
    \/ ClearVirtualTagsCache

ExtrasNext ==
    \/ ResolveExtras
    \/ ExtrasFetch
    \/ ExtrasTimerFire
    \/ ExtrasRespond
    \/ ExtrasCallPendingCallbacks
    \/ ClearExtrasTagsCache

LookupNext ==
    \/ LookupRemoteFail
    \/ LookupRemoteMalformed
    \/ LookupBulkReturn
    \/ LookupTick

\* ---- findTagInfo for every kind of definition and every configuration ----

\* What findTagInfo itself does to the batchers and to the remote: nothing.
\* The fetch of a deferred record is a closure that is returned, not called.
ResolveEffectsEager(result) ==
    IF result.type = "deferred" /\ result.fetch
    THEN \E v \in ContentValues : BatcherSet(v, FALSE) /\ BulkCallbackStart
    ELSE UNCHANGED <<batcherVars, requests>>
ResolveEffects(result) == UNCHANGED <<batcherVars, requests>>

\* findTagInfo(props); returned keeps the call and its result until the caller
\* is done with it.  The batcher variables stand for the batcher of the
\* deferred endpoint.  Without numbers no definition is looked up, and the
\* substitute pair is only read from a found memo entry.
FindTagInfo ==
    \E tagEpc \in 0..MaxEpc, decodable \in BOOLEAN, apiClient \in BOOLEAN,
       extrasFetchUrl \in 0..MaxUrl, virtualEpcsFetchUrl \in 0..MaxUrl :
        \E def \in IF tagEpc # 0 /\ decodable THEN Definitions ELSE {NoDefinition},
           substituteDef \in IF tagEpc # 0 /\ decodable THEN SubstituteDefinitions(tagEpc)
                             ELSE {NoDefinition} :
            LET out == findTagInfo(tagEpc, decodable, def, substituteDef, apiClient,
                                   extrasFetchUrl, virtualEpcsFetchUrl)
            IN  /\ returned = NoCall
                /\ returned' = [tag |-> "call", hasEpc |-> tagEpc # 0,
                                decodable |-> decodable, def |-> def,
                                apiClient |-> apiClient,
                                extrasFetchUrl |-> extrasFetchUrl,
                                virtualEpcsFetchUrl |-> virtualEpcsFetchUrl,
                                virtualPath |-> out.virtualPath,
                                result |-> out.result]
                /\ extrasLookupBatcher' = out.extrasLookupBatcher
                /\ virtualLookupBatcher' = out.virtualLookupBatcher
                /\ ResolveEffects(out.result)
                /\ UNCHANGED <<observerVars, cache, processedValues, fetches,
                               batcherKind, virtuallyProcessedTags, extrasProcessedTags,
                               lookups>>

\* fetch() of the deferred record findTagInfo has just returned (batched
\* reading): processDeferredBatched up to its first await.
FetchReturned ==
    /\ returned.tag = "call"
    /\ returned.result.type = "deferred"
    /\ returned.result.fetch
    /\ calls < MaxDispatchFetches
    /\ Fetch

\* A flush of the virtual lookup batcher has been answered: its bulk callback
\* writes the memo.  The queue of that batcher is not followed here.
VirtualMemoWritten ==
    \E epcs \in SeqsUpTo(Epcs, 1), results \in LookupResults :
        /\ virtualLookupBatcher # 0
        /\ epcs # <<>>
        /\ virtuallyProcessedTags' = virtualMemoAfter(virtuallyProcessedTags, epcs, results)
        /\ virtuallyProcessedTags' # virtuallyProcessedTags
        /\ returned' = NoCall
        /\ UNCHANGED <<batcherVars, observerVars, deferredVars, batcherKind,
                       extrasProcessedTags, virtualLookupBatcher, extrasLookupBatcher,
                       lookups>>

\* The caller is done with the value a call returned.
Discard ==
    /\ returned # NoCall
    /\ returned' = NoCall
    /\ UNCHANGED <<batcherVars, observerVars, deferredVars, lookupVars>>

DispatchNext ==
    \/ FindTagInfo
    \/ Discard
    \/ FetchReturned
    \/ VirtualMemoWritten

\* ---- findTagInfo on an enum definition ----

\* The values table of an enum definition: entries {value, text}, in any
\* order and with repeated values.
EnumTexts == {"red", "green"}
EnumValues == [value : ContentValues, text : EnumTexts]
EnumTables == SeqsUpTo(EnumValues, MaxEnumEntries)

\* What Array.prototype.find yields when no entry passes.
NoEnumValue == [value |-> -1, text |-> ""]

\* tagContentType.values.find((enumValue) => enumValue.value == contentValue)
RECURSIVE getEnumTagInfoTakesLast(_, _)
getEnumTagInfoTakesLast(values, contentValue) ==
    IF values = <<>> THEN NoEnumValue
    ELSE IF values[Len(values)].value = contentValue THEN values[Len(values)]
    ELSE getEnumTagInfoTakesLast(SubSeq(values, 1, Len(values) - 1), contentValue)
RECURSIVE getEnumTagInfo(_, _)
getEnumTagInfo(values, contentValue) ==
    IF values = <<>> THEN NoEnumValue
    ELSE IF Head(values).value = contentValue THEN Head(values)
    ELSE getEnumTagInfo(Tail(values), contentValue)

\* findTagInfo for an identifier whose numbers select an enum definition with
\* the table values and carry contentValue; configured says whether apiClient,
\* virtualEpcsBodyKey and virtualEpcsFetchUrl are given.  text is the text of
\* the record if the record is the enum record.
FindEnumTagInfo ==
    /\ returned = NoCall
    /\ \E tagEpc \in Epcs, values \in EnumTables, contentValue \in ContentValues,
       configured \in BOOLEAN :
        \E substituteDef \in SubstituteDefinitions(tagEpc) :
            LET foundValue == getEnumTagInfo(values, contentValue)
                def == [type |-> "enum", hit |-> foundValue # NoEnumValue]
                out == findTagInfo(tagEpc, TRUE, def, substituteDef, configured, 0,
                                   IF configured THEN 1 ELSE 0)
            IN  /\ returned' = [tag |-> "enum", values |-> values,
                                contentValue |-> contentValue,
                                configured |-> configured,
                                result |-> out.result,
                                text |-> IF out.result.type = "enum"
                                         THEN foundValue.text ELSE ""]
                /\ extrasLookupBatcher' = out.extrasLookupBatcher
                /\ virtualLookupBatcher' = out.virtualLookupBatcher
                /\ UNCHANGED <<batcherVars, observerVars, deferredVars, batcherKind,
                               virtuallyProcessedTags, extrasProcessedTags, lookups>>

EnumNext ==
    \/ FindEnumTagInfo
    \/ Discard
    \/ VirtualMemoWritten

\* ---- getTagNumbers ----

\* A character is a hexadecimal digit 0..15 or NonHex, which stands for any
\* character that is no hex digit, no white space, no sign and no "x".  An
\* identifier is a sequence of characters.
NonHex == 16

IsHexDigit(c) == c \in 0..15

\* What the identifiers are built from here: whole chunks of eight characters
\* (values 1, 16 and 10, one that ends in a NonHex and one that starts with
\* it), followed by a tail of fewer than eight characters.
ChunkLiterals ==
    {<<0, 0, 0, 0, 0, 0, 0, 1>>, <<0, 0, 0, 0, 0, 0, 1, 0>>, <<0, 0, 0, 0, 0, 0, 0, 10>>,
     <<0, 0, 0, 0, 0, 0, 0, NonHex>>, <<NonHex, 0, 0, 0, 0, 0, 0, 1>>}

TailLiterals == {<<>>, <<2>>, <<NonHex>>}

RECURSIVE ChunkSeqs(_)
ChunkSeqs(n) ==
    IF n = 0 THEN {<<>>}
    ELSE LET shorter == ChunkSeqs(n - 1)
         IN  shorter \cup {q \o c : q \in shorter, c \in ChunkLiterals}

EpcStrings == {q \o t : q \in ChunkSeqs(MaxChunks), t \in TailLiterals}

\* NaN, undefined and null, as getTagNumbers meets them.
NaN == -1
Undefined == -2
NoNumbers == <<>>

\* if (tagEpc?.length >= 32) tagEpc = tagEpc.slice(8)
sliceEpcKeepsAll(tagEpc) == tagEpc
sliceEpc(tagEpc) ==
    IF Len(tagEpc) >= 32 THEN SubSeq(tagEpc, 9, Len(tagEpc)) ELSE tagEpc

\* tagEpc.match(/.{1,8}/g): the chunks of up to eight characters from the
\* start; null for the empty string, which "|| []" turns into no chunk.
RECURSIVE MatchChunks(_)
MatchChunks(str) ==
    IF str = <<>> THEN <<>>
    ELSE LET n == Min(8, Len(str))
         IN  <<SubSeq(str, 1, n)>> \o MatchChunks(SubSeq(str, n + 1, Len(str)))

\* The longest prefix of hex digits.
RECURSIVE HexPrefix(_)
HexPrefix(str) ==
    IF str = <<>> \/ ~IsHexDigit(Head(str)) THEN <<>>
    ELSE <<Head(str)>> \o HexPrefix(Tail(str))

RECURSIVE DigitsValue(_, _)
DigitsValue(acc, digits) ==
    IF digits = <<>> THEN acc ELSE DigitsValue(acc * 16 + Head(digits), Tail(digits))

\* parseInt(i, 16): the value of the longest prefix of hex digits, NaN if
\* there is none.
parseInt16(str) ==
    IF HexPrefix(str) = <<>> THEN NaN ELSE DigitsValue(0, HexPrefix(str))

\* isValidNumber(num) for what parseInt or a missing array element yields.
isValidNumber(num) == num # NaN /\ num # Undefined

getTagNumbers(tagEpc) ==
    LET chunks == MatchChunks(sliceEpc(tagEpc))
        v1 == IF Len(chunks) >= 1 THEN parseInt16(chunks[1]) ELSE Undefined
        v2 == IF Len(chunks) >= 2 THEN parseInt16(chunks[2]) ELSE Undefined
    IN  IF ~isValidNumber(v1) \/ ~isValidNumber(v2) THEN NoNumbers ELSE <<v1, v2>>

\* getTagNumbers(tagEpc), called with any identifier.
GetTagNumbers ==
    /\ returned = NoCall
    /\ \E tagEpc \in EpcStrings :
        returned' = [tag |-> "getTagNumbers", tagEpc |-> tagEpc,
                     numbers |-> getTagNumbers(tagEpc)]
    /\ UNCHANGED <<batcherVars, observerVars, deferredVars, lookupVars>>

DecodeNext ==
    \/ GetTagNumbers
    \/ Discard

\* ---- recursiveLookup ----

\* A JavaScript value: undefined, null, a number, or a reference to an object
\* or array of the heap.
UndefinedValue == [t |-> "undefined", v |-> 0]
NullValue == [t |-> "null", v |-> 0]
NumberValue(n) == [t |-> "number", v |-> n]
Ref(n) == [t |-> "object", v |-> n]

\* The leaves of the searched structures and the value looked for.
Leaves == {NumberValue(5), NumberValue(7)}
LookingForValue == 5

\* An object {self, v} or an array [items]; __parent__ and toJson are the
\* fields recursiveLookup adds, cloneOf says which node a copy was made from
\* (0 for a node of the searched structure).
ObjectNode(self, v) ==
    [kind |-> "object", self |-> self, v |-> v, items |-> <<>>,
     parent |-> UndefinedValue, toJson |-> FALSE, cloneOf |-> 0]

ArrayNode(items) ==
    [kind |-> "array", self |-> UndefinedValue, v |-> UndefinedValue, items |-> items,
     parent |-> UndefinedValue, toJson |-> FALSE, cloneOf |-> 0]

\* The structures searched here: node 1 is the target of the lookup; field v
\* and array elements hold a leaf or a node further down, field self is
\* absent or refers to the node itself, to node 1 or to a node further down.
NodesAt(k) ==
    {ObjectNode(self, v) :
        self \in {UndefinedValue} \cup {Ref(j) : j \in {1} \cup k..MaxNodes},
        v \in Leaves \cup {Ref(j) : j \in (k + 1)..MaxNodes}}
    \cup {ArrayNode(items) :
        items \in SeqsUpTo({NumberValue(5)} \cup {Ref(j) : j \in (k + 1)..MaxNodes},
                           MaxItems)}

Heaps == {h \in [1..MaxNodes -> UNION {NodesAt(k) : k \in 1..MaxNodes}] :
            \A k \in 1..MaxNodes : h[k] \in NodesAt(k)}

Segments == {"[]", "self", "v"}
LookupMaps == SeqsUpTo(Segments, MaxSegments)

\* target[key] for an object of the heap; no object here has a field named
\* by a number, by "[]" or "undefined".
GetField(node, key) ==
    IF key = "self" THEN node.self
    ELSE IF key = "v" THEN node.v
    ELSE IF key = "__parent__" THEN node.parent
    ELSE UndefinedValue

\* target[lookupMap[0] == "[value]" ? lookingForValue : lookupMap[0]]
GetSegment(node, lookupMap) ==
    IF lookupMap = <<>> \/ Head(lookupMap) = "[value]" THEN UndefinedValue
    ELSE GetField(node, Head(lookupMap))

\* lookupMap.slice(1)
Slice1(lookupMap) == IF lookupMap = <<>> THEN <<>> ELSE Tail(lookupMap)

\* surfaceClone(obj) of a node: a new node with the same fields.
surfaceClone(heap, n) == [heap[n] EXCEPT !.cloneOf = n]

\* surfaceClone(obj) where it is called: the heap with the new node and the
\* reference to it.
CloneIntoSameNode(heap, n) == [heap |-> heap, ref |-> Ref(n)]
CloneInto(heap, n) == [heap |-> Append(heap, surfaceClone(heap, n)), ref |-> Ref(Len(heap) + 1)]

NoMatch(heap, root) == [depth |-> root, result |-> NullValue, heap |-> heap]

\* lastParent after the loop of setParent: steps times ?.__parent__.
RECURSIVE LastParent(_, _, _)
LastParentIsResult(heap, value, steps) == value
LastParent(heap, value, steps) ==
    IF steps <= 0 THEN value
    ELSE IF value.t # "object" THEN UndefinedValue
    ELSE LastParent(heap, heap[value.v].parent, steps - 1)

\* setParent(obj) in the invocation with this root and target: the heap after.
setParent(obj, root, target) ==
    IF obj.result = NullValue THEN obj.heap
    ELSE LET lastParent == LastParent(obj.heap, obj.result, obj.depth - root - 2)
         IN  IF lastParent.t = "object" /\ lastParent # target
             THEN LET cloned == CloneInto(obj.heap, target.v)
                  IN  [cloned.heap EXCEPT ![lastParent.v].parent = cloned.ref]
             ELSE obj.heap

\* seen.includes(target)
seenIncludesNever(seen, target) == FALSE
seenIncludes(seen, target) == target \in seen

\* __recursiveLookup and the loop of its array branch (from element k on).
\* The result is {depth, result} and the heap with the copies made.
RECURSIVE lookupRec(_, _, _, _, _, _)
RECURSIVE lookupItemsFromLast(_, _, _, _, _, _)
RECURSIVE lookupItems(_, _, _, _, _, _)

lookupItemsFromLast(heap, lookupMap, target, root, seen, k) ==
    LET items == heap[target.v].items
    IN  IF k > Len(items) THEN NoMatch(heap, root)
        ELSE LET match == lookupRec(heap, lookupMap, items[Len(items) + 1 - k], target, root + 1, seen)
             IN  IF match.result # NullValue THEN match
                 ELSE lookupItemsFromLast(heap, lookupMap, target, root, seen, k + 1)
lookupItems(heap, lookupMap, target, root, seen, k) ==
    LET items == heap[target.v].items
    IN  IF k > Len(items) THEN NoMatch(heap, root)
        ELSE LET match == lookupRec(heap, lookupMap, items[k], target, root + 1, seen)
             IN  IF match.result # NullValue THEN match
                 ELSE lookupItems(heap, lookupMap, target, root, seen, k + 1)

lookupRec(heap, lookupMap, target, parent, root, seen) ==
    IF seenIncludes(seen, target) THEN NoMatch(heap, root)
    ELSE IF target.t \in {"null", "undefined"} THEN NoMatch(heap, root)
    ELSE IF target.t = "object" THEN
        IF heap[target.v].kind = "array" THEN
            IF lookupMap = <<>> \/ Head(lookupMap) # "[]" THEN NoMatch(heap, root)
            ELSE LET match == lookupItems(heap, Slice1(lookupMap), target, root,
                                          seen \cup {target}, 1)
                 IN  [match EXCEPT !.heap = setParent(match, root, target)]
        ELSE LET result == lookupRec(heap, Slice1(lookupMap),
                                     GetSegment(heap[target.v], lookupMap), target,
                                     root + 1, seen \cup {target})
             IN  [result EXCEPT !.heap = setParent(result, root, target)]
    ELSE IF lookupMap = <<>> /\ target.v = LookingForValue THEN
        LET cloned == CloneInto(heap, parent.v)
        IN  [depth |-> root, result |-> cloned.ref,
             heap |-> [cloned.heap EXCEPT ![cloned.ref.v].toJson = TRUE]]
    ELSE NoMatch(heap, root)

\* recursiveLookup(lookupMap, lookingForValue, target) for target = node 1.
recursiveLookup(heap, lookupMap) == lookupRec(heap, lookupMap, Ref(1), UndefinedValue, 0, {})

\* contentType.data = data: the caller holds a structure to search.
LoadData ==
    /\ returned = NoCall
    /\ \E heap \in Heaps : returned' = [tag |-> "data", target |-> heap]
    /\ UNCHANGED <<batcherVars, observerVars, deferredVars, lookupVars>>

\* A call of recursiveLookup on the structure with any pattern.
RecursiveLookup ==
    /\ returned.tag = "data"
    /\ \E lookupMap \in LookupMaps :
        LET out == recursiveLookup(returned.target, lookupMap)
        IN  returned' = [tag |-> "recursiveLookup", target |-> returned.target,
                        lookupMap |-> lookupMap, depth |-> out.depth,
                        result |-> out.result, heap |-> out.heap]
    /\ UNCHANGED <<batcherVars, observerVars, deferredVars, lookupVars>>

RecursiveLookupNext ==
    \/ LoadData
    \/ RecursiveLookup
    \/ Discard

\* ---- processTextMapper ----

\* A text is a sequence of tokens: words, the space " " and placeholders.
\* A value of the target carries its type, whether it is truthy and the text
\* String(value) gives.
JsValue(t, truthy, text) == [t |-> t, truthy |-> truthy, text |-> text]

JsUndefined == JsValue("undefined", FALSE, <<"undefined">>)
JsNull == JsValue("null", FALSE, <<"null">>)
JsFalse == JsValue("boolean", FALSE, <<"false">>)
JsZero == JsValue("number", FALSE, <<"0">>)
JsEmptyString == JsValue("string", FALSE, <<>>)
JsJohn == JsValue("string", TRUE, <<"John">>)
JsTwentySix == JsValue("number", TRUE, <<"26">>)

\* The targets: objects with the fields name and age, each possibly absent.
Targets ==
    [name : {JsUndefined, JsJohn, JsEmptyString},
     age : {JsUndefined, JsTwentySix, JsZero, JsNull, JsFalse}]

\* recursiveSelect(selector, obj) for a selector of one segment.
recursiveSelect(selector, obj) ==
    IF selector = "name" THEN obj.name
    ELSE IF selector = "age" THEN obj.age
    ELSE JsUndefined

\* The tokens /\{([0-9]+)\}/g matches, and the number in them.
Placeholders == {"{0}", "{1}", "{2}"}

PlaceholderIndex(token) == IF token = "{0}" THEN 0 ELSE IF token = "{1}" THEN 1 ELSE 2

UnknownReplacement == <<"<unknown>">>

\* An item of a text mapper: a string, an object {values, matchedString,
\* notMatchingString}, or something else (null, an object without values).
TextItem(text) ==
    [kind |-> "string", text |-> text, values |-> <<>>, matchedString |-> <<>>,
     notMatchingString |-> <<>>]

RuleItem(values, matchedString, notMatchingString) ==
    [kind |-> "object", text |-> <<>>, values |-> values, matchedString |-> matchedString,
     notMatchingString |-> notMatchingString]

BrokenItem ==
    [kind |-> "null", text |-> <<>>, values |-> <<>>, matchedString |-> <<>>,
     notMatchingString |-> <<>>]

TextItems ==
    {TextItem(<<"yeahhhhh">>), TextItem(<<" ", "yeahhhhh">>), BrokenItem}
    \cup {RuleItem(values, matchedString, notMatchingString) :
            values \in {<<"name">>, <<"name", "age">>},
            matchedString \in {<<"{0}">>, <<"{0}", " ", "{1}">>, <<"{2}">>, <<"{x}">>},
            notMatchingString \in {<<"missing">>, <<>>}}

TextMappers == SeqsUpTo(TextItems, MaxRules)

\* item.values.map((vMapper) => recursiveSelect(vMapper, target))
\*     .filter((t) => t !== undefined)
RECURSIVE matchedValuesOf(_, _)
matchedValuesOf(values, target) ==
    IF values = <<>> THEN <<>>
    ELSE LET value == recursiveSelect(Head(values), target)
             rest == matchedValuesOf(Tail(values), target)
         IN  IF value = JsUndefined THEN rest ELSE <<value>> \o rest

\* The callback of replaceAll: matchedValues[index] || unknownReplacement.
replacement(matchedValues, token) ==
    LET index == PlaceholderIndex(token)
    IN  IF index + 1 <= Len(matchedValues) /\ matchedValues[index + 1].truthy
        THEN matchedValues[index + 1].text
        ELSE UnknownReplacement

\* item.matchedString.replaceAll(/\{([0-9]+)\}/g, ...)
RECURSIVE replaceAll(_, _)
replaceAll(matchedString, matchedValues) ==
    IF matchedString = <<>> THEN <<>>
    ELSE (IF Head(matchedString) \in Placeholders
          THEN replacement(matchedValues, Head(matchedString))
          ELSE <<Head(matchedString)>>)
         \o replaceAll(Tail(matchedString), matchedValues)

\* What one item pushes to processedTextList.
processItem(item, target) ==
    IF item.kind = "string" THEN item.text
    ELSE LET matchedValues == matchedValuesOf(item.values, target)
         IN  IF Len(matchedValues) = Len(item.values)
             THEN replaceAll(item.matchedString, matchedValues)
             ELSE item.notMatchingString

\* The loop inside try: processedTextList when the loop ends or an item
\* throws (item.values of null, values.map of undefined).
RECURSIVE processedTextList(_, _)
processedTextList(textMapper, target) ==
    IF textMapper = <<>> \/ Head(textMapper).kind = "null" THEN <<>>
    ELSE <<processItem(Head(textMapper), target)>>
         \o processedTextList(Tail(textMapper), target)

\* processedTextList.join(" ")
RECURSIVE joinWithoutSpace(_)
joinWithoutSpace(list) ==
    IF list = <<>> THEN <<>> ELSE Head(list) \o joinWithoutSpace(Tail(list))
RECURSIVE join(_)
join(list) ==
    IF list = <<>> THEN <<>>
    ELSE IF Len(list) = 1 THEN Head(list)
    ELSE Head(list) \o <<" ">> \o join(Tail(list))

processTextMapper(textMapper, target) == join(processedTextList(textMapper, target))

\* A call of processTextMapper with any text mapper and target.
ProcessTextMapper ==
    /\ returned = NoCall
    /\ \E textMapper \in TextMappers, target \in Targets :
        returned' = [tag |-> "processTextMapper", textMapper |-> textMapper,
                     target |-> target,
                     fragments |-> processedTextList(textMapper, target),
                     text |-> processTextMapper(textMapper, target)]
    /\ UNCHANGED <<batcherVars, observerVars, deferredVars, lookupVars>>

RenderNext ==
    \/ ProcessTextMapper
    \/ Discard

\* ---- the three stores together and the clear operations ----

\* findTagInfo with both lookups configured, for an identifier no definition
\* matches: both lookup batchers exist afterwards.  The result is dropped.
ResolveBoth ==
    \E tagEpc \in Epcs :
        LET out == findTagInfo(tagEpc, TRUE, NoDefinition, NoDefinition, TRUE, 1, 1)
        IN  /\ extrasLookupBatcher = 0 \/ virtualLookupBatcher = 0
            /\ extrasLookupBatcher' = out.extrasLookupBatcher
            /\ virtualLookupBatcher' = out.virtualLookupBatcher
            /\ ResolveEffects(out.result)
            /\ returned' = NoCall
            /\ UNCHANGED <<observerVars, cache, processedValues, fetches, batcherKind,
                           virtuallyProcessedTags, extrasProcessedTags, lookups>>

\* A flush of the extras lookup batcher has been answered: its bulk callback
\* writes the memo.  The queue of that batcher is not followed here.
ExtrasMemoWritten ==
    \E requested \in SeqsUpTo(Epcs, 1), tagsExtras \in LookupResults :
        /\ extrasLookupBatcher # 0
        /\ requested # <<>>
        /\ extrasProcessedTags' = extrasMemoAfter(extrasProcessedTags, requested, tagsExtras)
        /\ extrasProcessedTags' # extrasProcessedTags
        /\ returned' = NoCall
        /\ UNCHANGED <<batcherVars, observerVars, deferredVars, batcherKind,
                       virtuallyProcessedTags, virtualLookupBatcher, extrasLookupBatcher,
                       lookups>>

\* A fetch of a deferred record of the batched endpoint.
StoresFetch == calls < MaxDispatchFetches /\ Fetch

Cleared(by) == [tag |-> "cleared", by |-> by]

ClearFrame == UNCHANGED <<batcherVars, observerVars, requests, fetches, batcherKind,
                          virtualLookupBatcher, extrasLookupBatcher, lookups>>

SetStores(st) ==
    /\ cache' = st.cache
    /\ processedValues' = st.processedValues
    /\ virtuallyProcessedTags' = st.virtuallyProcessedTags
    /\ extrasProcessedTags' = st.extrasProcessedTags

\* The four exported clear operations, called at any moment; returned names
\* the operation that was called.
CallClearVirtualTagsCache ==
    /\ SetStores(clearVirtualTagsCache(StoresNow))
    /\ returned' = Cleared("clearVirtualTagsCache")
    /\ ClearFrame

CallClearExtrasTagsCache ==
    /\ SetStores(clearExtrasTagsCache(StoresNow))
    /\ returned' = Cleared("clearExtrasTagsCache")
    /\ ClearFrame

CallClearCachedBatchedItems ==
    /\ SetStores(clearCachedBatchedItems(StoresNow))
    /\ returned' = Cleared("clearCachedBatchedItems")
    /\ ClearFrame

CallClearAllCache ==
    /\ SetStores(clearAllCache(StoresNow))
    /\ returned' = Cleared("clearAllCache")
    /\ ClearFrame

StoresNext ==
    \/ ResolveBoth
    \/ VirtualMemoWritten
    \/ ExtrasMemoWritten
    \/ StoresFetch
    \/ RemoteRespond
    \/ DeferredCallPendingCallbacks
    \/ CallClearVirtualTagsCache
    \/ CallClearExtrasTagsCache
    \/ CallClearCachedBatchedItems
    \/ CallClearAllCache

\* ---- the batcher on its own, driven by arbitrary callers ----

\* Observers of the callers' timing; they do not influence the batcher.
ObserverInit ==
    /\ sinceSet = -1
    /\ streaming = TRUE
    /\ window = [items |-> <<>>, first |-> 0, debounced |-> TRUE, clean |-> TRUE]
    /\ enqueued = <<>>

ObserveSet(props) ==
    LET joins == sinceSet # -1 /\ sinceSet < PeriodInMs
        young == lastUpdatedAge < timeoutPeriod
    IN  /\ sinceSet' = 0
        /\ enqueued' = PushIfTruthy(enqueued, props)
        /\ streaming' = (streaming /\ (sinceSet = -1 \/ joins))
        /\ window' = IF joins
                      THEN [window EXCEPT !.items = PushIfTruthy(@, props),
                                          !.debounced = (@ /\ young)]
                      ELSE [items |-> PushIfTruthy(<<>>, props), first |-> Len(flushes),
                            debounced |-> young, clean |-> TRUE]

ObserveInterference(props) ==
    /\ window' = [window EXCEPT !.clean = FALSE]
    /\ enqueued' = PushIfTruthy(enqueued, props)
    /\ UNCHANGED <<sinceSet, streaming>>

ObserveTick ==
    /\ sinceSet' = IF sinceSet = -1 THEN -1
                   ELSE Min(sinceSet + (lastUpdatedAge' - lastUpdatedAge), Infinity)
    /\ UNCHANGED <<streaming, window, enqueued>>

\* Every call site of set in the repository passes a completion callback.
Set == \E withItem \in BOOLEAN :
          LET props == IF withItem THEN calls + 1 ELSE 0
          IN  /\ calls < MaxCalls
              /\ BatcherSet(props, TRUE) /\ ObserveSet(props) /\ NoLookup /\ UNCHANGED deferredVars
SetNow == \E withItem \in BOOLEAN :
          LET props == IF withItem THEN calls + 1 ELSE 0
          IN  BatcherSetNow(props) /\ ObserveInterference(props) /\ NoLookup /\ UNCHANGED deferredVars
ClearTimeoutHandler ==
    BatcherClearTimeoutHandler /\ ObserveInterference(0) /\ NoLookup /\ UNCHANGED deferredVars
TimerFire == BatcherTimerFire /\ NoLookup /\ UNCHANGED <<observerVars, deferredVars>>
Settle == \E i \in 1..Len(flushes), threw \in BOOLEAN :
          BatcherSettle(i, threw) /\ NoLookup /\ UNCHANGED <<observerVars, deferredVars>>
CallPendingCallbacks == \E i \in 1..Len(flushes) :
          BatcherCallPendingCallbacks(i) /\ NoLookup /\ UNCHANGED <<observerVars, deferredVars>>
Tick == BatcherTick /\ ObserveTick /\ NoLookup /\ UNCHANGED deferredVars

Init == BatcherInit /\ ObserverInit /\ DeferredInit /\ LookupInit
        /\ batcherKind = "deferred"

Next ==
    \/ Set
    \/ SetNow
    \/ ClearTimeoutHandler
    \/ TimerFire
    \/ Settle
    \/ CallPendingCallbacks
    \/ Tick

Spec == Init /\ [][Next]_vars

\* The same batcher under the scheduling the event loop guarantees: time
\* passes, a due timer fires, a bulk callback settles and the 57 ms timer of
\* callPendingCallbacks fires.  The callers may stop calling at any time.
FairSet == calls < MaxFairCalls /\ Set
FairSetNow == calls < MaxFairCalls /\ SetNow

FairNext ==
    \/ FairSet
    \/ FairSetNow
    \/ ClearTimeoutHandler
    \/ TimerFire
    \/ Settle
    \/ CallPendingCallbacks
    \/ Tick

FairSpec ==
    /\ Init /\ [][FairNext]_vars
    /\ WF_vars(Tick)
    /\ WF_vars(TimerFire)
    /\ WF_vars(Settle)
    /\ WF_vars(CallPendingCallbacks)

DeferredSpec == Init /\ [][DeferredNext]_vars

\* The three kinds of batcher findTagInfo works with, one of them followed per
\* behaviour: the batcher of a batched deferred endpoint, the virtual lookup
\* batcher or the extras lookup batcher.
ResolverInit ==
    /\ BatcherInit /\ ObserverInit /\ DeferredInit /\ LookupInit
    /\ batcherKind \in {"deferred", "virtual", "extras"}

ResolverNext ==
    \/ (batcherKind = "deferred" /\ DeferredNext)
    \/ VirtualNext
    \/ ExtrasNext
    \/ LookupNext

ResolverSpec == ResolverInit /\ [][ResolverNext]_vars

\* findTagInfo on enum definitions, with the memo of the virtual lookup.
EnumSpec == Init /\ [][EnumNext]_vars

\* Calls of recursiveLookup.
RecursiveLookupSpec == Init /\ [][RecursiveLookupNext]_vars

\* Calls of processTextMapper.
RenderSpec == Init /\ [][RenderNext]_vars

\* Calls of getTagNumbers.
DecodeSpec == Init /\ [][DecodeNext]_vars

\* The cache of the batched endpoint and the two memos, written and cleared.
StoresSpec == Init /\ [][StoresNext]_vars

\* Calls of findTagInfo with every kind of definition and configuration.
DispatchSpec == Init /\ [][DispatchNext]_vars

\* The virtual lookup under the scheduling the event loop guarantees: time
\* passes, a due timer fires, the remote call settles one way or another, the
\* 57 ms timer of callPendingCallbacks fires and a recursive call is made.
VirtualInit == ResolverInit /\ batcherKind = "virtual"

VirtualLookupNext == VirtualNext \/ LookupNext

BulkCallbackSettles ==
    VirtualRespond \/ LookupRemoteFail \/ LookupRemoteMalformed \/ LookupBulkReturn

FairVirtualSpec ==
    /\ VirtualInit /\ [][VirtualLookupNext]_vars
    /\ WF_vars(LookupTick)
    /\ WF_vars(VirtualTimerFire)
    /\ WF_vars(BulkCallbackSettles)
    /\ WF_vars(VirtualCallPendingCallbacks)
    /\ WF_vars(VirtualRetry)

\* ---- properties of the batcher ----

RECURSIVE FlattenItems(_)
FlattenItems(fs) ==
    IF fs = <<>> THEN <<>> ELSE fs[1].items \o FlattenItems(Tail(fs))

IsSuffix(a, b) ==
    /\ Len(a) <= Len(b)
    /\ \A k \in 1..Len(a) : a[k] = b[Len(b) - Len(a) + k]

InSeq(x, sq) == \E k \in 1..Len(sq) : sq[k] = x

\* The burst is over: no set joined it for a whole timeoutPeriod and every
\* timer it armed has fired.
WindowClosed == sinceSet >= timeoutPeriod /\ timeout # "armed"

OneInvocationWithAll ==
    /\ Len(flushes) = window.first + 1
    /\ IsSuffix(window.items, flushes[window.first + 1].items)

C2_ItemsDeliveredOnceInOrder ==
    FlattenItems(flushes) \o batched = enqueued

C2_Witness ==
    \E i, j \in 1..Len(flushes) :
        /\ i < j
        /\ flushes[i].phase = "running" /\ flushes[j].phase = "running"
        /\ flushes[i].items # <<>> /\ flushes[j].items # <<>>
        /\ flushes[i].by = "set" /\ flushes[j].by = "setNow"
        /\ batched # <<>>

Registered(c) ==
    \/ InSeq(c, pendingCallbacks)
    \/ \E i \in 1..Len(flushes) : InSeq(c, flushes[i].cbs)

Invoked(c) == cbLog[c] # <<>>

\* The callback waits in pendingCallbacks and no timer is armed to flush it:
\* the state clearTimeoutHandler leaves behind.
Stranded(c) == InSeq(c, pendingCallbacks) /\ timeout # "armed"

\* C4 (as stated): every completion callback registered through set is
\* eventually invoked, whether the bulk callback succeeds or throws.
C4_EveryCallbackInvoked ==
    \A c \in 1..MaxCalls : Registered(c) ~> Invoked(c)

\* C4 (amended): every completion callback registered through set is
\* eventually invoked, whether the bulk callback succeeds or throws, unless
\* clearTimeoutHandler disarms the timer it waits for; it then stays pending
\* until a later set arms a timer or flushes.
C4_EveryCallbackInvokedUnlessDisarmed ==
    \A c \in 1..MaxCalls : Registered(c) ~> (Invoked(c) \/ Stranded(c))

C4_Witness ==
    \E c \in 1..MaxCalls :
        /\ Invoked(c)
        /\ cbLog[c][1].error
        /\ flushes[cbLog[c][1].flush].by = "timer"

\* C5: while set keeps being called with gaps shorter than periodInMs, items
\* never stay queued longer after the previous flush than one timeoutPeriod
\* plus the time since the latest set call.
C5_BoundedStaleness ==
    (streaming /\ batched # <<>>) => lastUpdatedAge < timeoutPeriod + sinceSet

\* A set of the stream found the debounce timer pending and the last flush a
\* whole timeoutPeriod old, and flushed what the stream had queued.
C5_Witness ==
    /\ streaming
    /\ sinceSet = 0
    /\ timeout = "armed"
    /\ Len(flushes) >= 2
    /\ flushes[Len(flushes)].by = "set"
    /\ Len(flushes[Len(flushes)].items) >= 2
    /\ \A i \in 1..Len(flushes) : flushes[i].by = "set"

IsSetStep ==
    /\ calls' = calls + 1
    /\ ~(Len(flushes') = Len(flushes) + 1 /\ flushes'[Len(flushes')].by = "setNow")

FlushedNow == Len(flushes') = Len(flushes) + 1

ArmsOneTimer ==
    /\ timeout' = "armed"
    /\ timerLeft' = PeriodInMs + FixedSkew
    /\ flushes' = flushes

\* C6 (as stated): set flushes immediately if and only if a flush timer is
\* pending and at least periodInMs ms have elapsed since the last flush;
\* otherwise it arms one debounce timer of periodInMs + 7 ms.
C6_FlushIffPendingAndPeriodElapsed ==
    [][IsSetStep =>
          /\ FlushedNow <=> (timeout = "armed" /\ lastUpdatedAge >= PeriodInMs)
          /\ ~FlushedNow => ArmsOneTimer]_vars

\* C6 (amended): set flushes immediately if and only if either a debounce
\* timer was armed before (pending or not: the handle is never reset) and at
\* least periodInMs + 7 ms have elapsed since the last flush started, or more
\* than 10 * (periodInMs + 7) ms have elapsed since then (always so before the
\* first flush); an immediate flush leaves the timer as it is, and in every
\* other case set cancels the pending timer, if any, and arms one debounce
\* timer of periodInMs + 7 ms.
C6_FlushDecision ==
    [][IsSetStep =>
          /\ FlushedNow <=>
                \/ (timeout # "null" /\ lastUpdatedAge >= PeriodInMs + FixedSkew)
                \/ lastUpdatedAge > StaleFactor * (PeriodInMs + FixedSkew)
          /\ FlushedNow => UNCHANGED <<timeout, timerLeft>>
          /\ ~FlushedNow => ArmsOneTimer]_vars

\* set has just flushed although the timer armed earlier had already fired.
C6_Witness ==
    /\ Len(flushes) >= 3
    /\ flushes[Len(flushes)].by = "set"
    /\ flushes[Len(flushes) - 1].by = "timer"
    /\ timeout = "spent"
    /\ lastUpdatedAge = 0
    /\ sinceSet = 0

\* ---- properties of the batched deferred resolver ----

\* C7: every value included in a flush that completed is recorded in
\* processedValues (resolvedKeys), found or not.
C7_FlushedValuesResolved ==
    [][\A i \in 1..Len(flushes) :
          (flushes[i].phase = "running" /\ flushes'[i].phase = "settled"
             /\ ~flushes'[i].threw)
          => \A k \in 1..Len(flushes[i].items) :
                Has(processedValues', flushes[i].items[k])]_vars

\* C8: the cache of the endpoint never holds two records with an equal
\* unique-match key.
C8_UniqueKeysInCache ==
    \A i, j \in 1..Len(cache) : cache[i].key = cache[j].key => i = j

\* Two flushes asked for an overlapping value while both were in flight, and
\* each response listed a record that the merge did not push.
C8_Witness ==
    \E r1, r2 \in 1..Len(requests) :
        /\ r1 # r2
        /\ requests[r1].state = "answered" /\ requests[r2].state = "answered"
        /\ requests[r2].concurrent
        /\ \E k \in 1..Len(requests[r1].values) :
              Has(requests[r2].values, requests[r1].values[k])
        /\ requests[r1].dropped /\ requests[r2].dropped
        /\ Len(cache) = 1

\* C9: a flush makes at most one remote call; the values it sends are values
\* of its snapshot, none twice and none already in processedValues; a flush
\* whose snapshot is empty makes no remote call.
C9_OneDedupedRequestPerFlush ==
    /\ \A r1, r2 \in 1..Len(requests) :
          requests[r1].flush = requests[r2].flush => r1 = r2
    /\ \A r \in 1..Len(requests) :
          LET q == requests[r]
          IN  /\ q.values # <<>>
              /\ \A k, l \in 1..Len(q.values) : q.values[k] = q.values[l] => k = l
              /\ \A k \in 1..Len(q.values) :
                    /\ ~Has(q.known, q.values[k])
                    /\ Has(flushes[q.flush].items, q.values[k])
    /\ \A i \in 1..Len(flushes) : flushes[i].items = <<>> => ~HasRequest(i)

C9_Witness ==
    /\ \E r \in 1..Len(requests) :
          Len(flushes[requests[r].flush].items) > Len(requests[r].values)
    /\ \E i \in 1..Len(flushes) :
          flushes[i].items = <<>> /\ flushes[i].phase = "done" /\ ~HasRequest(i)

\* C10: a batched deferred fetch for a value whose record is in the cache
\* returns that record at once: nothing is queued on the batcher, no timer is
\* armed, no flush and no remote call is started.
C10_CacheHitReturnsAtOnce ==
    [][\A v \in ContentValues :
          (/\ calls' = calls + 1
           /\ fetches'[calls'].v = v
           /\ \E k \in 1..Len(cache) : cache[k].val = v)
          => /\ fetches'[calls'].status = "hit"
             /\ fetches'[calls'].result.val = v
             /\ Has(cache, fetches'[calls'].result)
             /\ UNCHANGED <<batched, pendingCallbacks, timeout, timerLeft,
                            lastUpdatedAge, flushes, requests, cache>>]_vars

C10_Witness ==
    \E c \in 1..MaxCalls :
        /\ fetches[c].status = "hit"
        /\ \E r \in 1..Len(requests) : requests[r].state = "pending"

\* ---- properties of findTagInfo and of the three kinds of batcher ----

FlushFails(i) == flushes[i].phase = "running" /\ flushes'[i].phase = "settled"
                 /\ flushes'[i].threw

ErrorDelivered(i) == flushes[i].phase = "settled" /\ flushes'[i].phase = "done"
                     /\ flushes[i].threw

Stores == <<cache, processedValues, virtuallyProcessedTags, extrasProcessedTags>>

\* C11: when the remote call of a flush fails, neither the failure nor the
\* delivery of its error changes the endpoint cache, processedValues or the
\* memos, the queue or the pending callbacks; the error is passed to exactly
\* the completion callbacks of that flush's snapshot, whose fetches are
\* rejected; every other fetch and flush is left as it is, and a fetch is
\* rejected only in this way.
C11_FailureStaysInItsFlush ==
    [][/\ \A i \in 1..Len(flushes) :
             FlushFails(i) =>
                /\ UNCHANGED <<Stores, batched, pendingCallbacks, cbLog, fetches, lookups>>
                /\ \A j \in 1..Len(flushes) : j # i => flushes'[j] = flushes[j]
       /\ \A i \in 1..Len(flushes) :
             ErrorDelivered(i) =>
                /\ UNCHANGED <<Stores, batched, pendingCallbacks, requests>>
                /\ \A j \in 1..Len(flushes) : j # i => flushes'[j] = flushes[j]
                /\ \A c \in DOMAIN cbLog :
                      IF Has(flushes[i].cbs, c)
                      THEN cbLog'[c] = Append(cbLog[c], [error |-> TRUE, flush |-> i])
                      ELSE cbLog'[c] = cbLog[c]
                /\ \A c \in DOMAIN fetches :
                      IF batcherKind = "deferred" /\ Has(flushes[i].cbs, c)
                      THEN fetches'[c].status = "rejected"
                      ELSE fetches'[c] = fetches[c]
                /\ \A l \in DOMAIN lookups :
                      IF lookups[l].status = "waiting" /\ Has(flushes[i].cbs, lookups[l].cb)
                      THEN lookups'[l].status = "rejected"
                      ELSE lookups'[l] = lookups[l]
       /\ \A c \in DOMAIN fetches :
             (fetches[c].status # "rejected" /\ fetches'[c].status = "rejected")
             => \E i \in 1..Len(flushes) : ErrorDelivered(i) /\ Has(flushes[i].cbs, c)
       /\ \A l \in DOMAIN lookups :
             (lookups[l].status # "rejected" /\ lookups'[l].status = "rejected")
             => \E i \in 1..Len(flushes) :
                   ErrorDelivered(i) /\ Has(flushes[i].cbs, lookups[l].cb)]_vars

\* The request of one flush failed and its fetch was rejected; a later flush
\* asked for the same value, was answered, and its fetch found the record.
C11_Witness ==
    \E r1, r2 \in 1..Len(requests) :
        /\ r1 < r2
        /\ requests[r1].state = "failed" /\ requests[r2].state = "answered"
        /\ requests[r1].values = requests[r2].values
        /\ \E c1, c2 \in DOMAIN fetches :
              /\ Has(flushes[requests[r1].flush].cbs, c1)
              /\ Has(flushes[requests[r2].flush].cbs, c2)
              /\ fetches[c1].status = "rejected"
              /\ fetches[c2].status = "found"
              /\ fetches[c1].v = fetches[c2].v

\* C12: fetchExtraInfo always resolves, with the memoised value or null, and
\* never rejects: no call of it ever ends rejected, also when the remote call
\* fails or the response lacks the expected list.
C12_FetchExtraInfoNeverRejects ==
    batcherKind = "extras" =>
        \A l \in DOMAIN lookups : lookups[l].status # "rejected"

Settled(l) == lookups[l].status \in {"found", "null", "rejected", "failed"}

\* C13: a virtual fetch whose completion callback finds no memo entry after a
\* flush that did not fail re-invokes itself with attemptCount + 1 and nothing
\* else runs in between; the re-invocation with attemptCount 5 rejects without
\* enqueuing; one top-level fetch enqueues its identifier at most 5 times,
\* and every fetch that waits for a flush is settled in the end.
C13_RetryCeiling ==
    /\ [][\A l \in DOMAIN lookups :
            LET lk == lookups[l]
                after == lookups'[l]
            IN  /\ after.sets <= AttemptCeiling
                /\ after.sets <= after.attemptCount + 1
                /\ after.attemptCount <= AttemptCeiling
                /\ (lk.status = "waiting" /\ after.status = "retrying")
                   => /\ after.attemptCount = lk.attemptCount + 1
                      /\ virtuallyProcessedTags[lk.epc] = NoEntry
                /\ (lk.status = "waiting" /\ Settled(l)' /\ after.status # "rejected")
                   => virtuallyProcessedTags[lk.epc] # NoEntry
                /\ (lk.status = "retrying" /\ after # lk)
                   => IF lk.attemptCount >= AttemptCeiling
                      THEN after.status = "failed" /\ after.sets = lk.sets
                           /\ UNCHANGED <<batched, pendingCallbacks>>
                      ELSE virtuallyProcessedTags[lk.epc] = NoEntry
                           => /\ after.status = "waiting"
                              /\ after.sets = lk.sets + 1
                              /\ after.attemptCount = lk.attemptCount
                /\ after.status = "failed" => after.attemptCount = AttemptCeiling
                /\ Retrying => \E k \in DOMAIN lookups :
                                  lookups[k].status = "retrying" /\ lookups'[k] # lookups[k]]_vars
    /\ \A l \in 1..MaxLookups :
          (lookups[l].status \in {"waiting", "retrying"}) ~> Settled(l)

\* A fetch found the memo empty after each of five flushes and was rejected
\* by its sixth invocation.
C13_Witness ==
    \E l \in DOMAIN lookups :
        /\ lookups[l].status = "failed"
        /\ lookups[l].sets = AttemptCeiling
        /\ lookups[l].attemptCount = AttemptCeiling

Enqueued(epc) ==
    /\ calls' = calls + 1
    /\ \/ batched' = Append(batched, epc)
       \/ /\ Len(flushes') = Len(flushes) + 1
          /\ flushes'[Len(flushes')].items = Append(batched, epc)

NothingEnqueued == UNCHANGED <<batched, pendingCallbacks, calls, flushes, requests>>

\* C14: on the virtual path with a virtual endpoint configured, findTagInfo
\* returns what the memo entry of the identifier says: with no entry the object
\* exposing fetch, with a not-found entry null, with a found entry what
\* getTagInfoFromValues gives for the substitute pair of the entry (a record
\* with those numbers, or null); fetch, called when the memo has an entry,
\* returns from the entry without enqueuing, and enqueues otherwise.
C14_VirtualPathFollowsMemo ==
    [][batcherKind = "virtual" =>
        \A l \in DOMAIN lookups :
            LET lk == lookups[l]
                after == lookups'[l]
                entry == virtuallyProcessedTags[after.epc]
            IN  /\ (lk.status = "none" /\ after.status # "none")
                   => /\ NothingEnqueued
                      /\ entry = NoEntry =>
                            /\ after.result = MaybeVirtualObject(after.epc)
                            /\ after.status = "object"
                      /\ entry.status = "not-found" =>
                            after.result = Null /\ after.status = "resolved"
                      /\ entry.status = "found" =>
                            /\ after.status = "resolved"
                            /\ \/ after.result = Null
                               \/ /\ after.result.tag = "record"
                                  /\ after.result.numbers =
                                        [from |-> "memo", id |-> entry.value]
                /\ (lk.status = "object" /\ after.status # "object")
                   => /\ entry = NoEntry =>
                            /\ after.status = "waiting"
                            /\ Enqueued(lk.epc)
                      /\ entry.status = "not-found" =>
                            after.status = "null" /\ NothingEnqueued
                      /\ entry.status = "found" =>
                            /\ after.status = "found" /\ after.value = entry.value
                            /\ NothingEnqueued]_vars

\* findTagInfo returned the object with fetch for an identifier without an
\* entry; the flush of that fetch wrote a found entry, and a later findTagInfo
\* returned the record of the substitute pair of that entry.
C14_Witness ==
    \E l, k \in DOMAIN lookups :
        /\ lookups[l].result = MaybeVirtualObject(lookups[l].epc)
        /\ lookups[l].status = "found"
        /\ lookups[k].status = "resolved"
        /\ lookups[k].result.tag = "record"
        /\ lookups[k].result.numbers =
              [from |-> "memo", id |-> virtuallyProcessedTags[lookups[k].epc].value]

\* C15: a request for a remote endpoint is served by the batcher of that
\* endpoint: after findTagInfo was called with an extras endpoint (and an
\* identifier and an api client) the extras batcher is the one created for
\* that endpoint, and after it took the virtual path with a virtual endpoint
\* the virtual batcher is the one created for that endpoint; two distinct
\* endpoints never share a batcher.
C15_OneBatcherPerEndpoint ==
    (returned.tag = "call" /\ returned.hasEpc /\ returned.apiClient) =>
        /\ returned.extrasFetchUrl # 0 =>
              extrasLookupBatcher = returned.extrasFetchUrl
        /\ (returned.virtualPath /\ returned.virtualEpcsFetchUrl # 0) =>
              virtualLookupBatcher = returned.virtualEpcsFetchUrl

IsFindTagInfoStep == returned = NoCall /\ returned' # NoCall

RemoteOrEnqueue ==
    \/ requests' # requests
    \/ batched' # batched
    \/ pendingCallbacks' # pendingCallbacks
    \/ flushes' # flushes
    \/ timeout' # timeout

\* C16: a call of findTagInfo, whatever the definition and the configuration,
\* posts no request and leaves the queue, the pending callbacks, the flushes
\* and the timer as they are; for a deferred definition it returns the record
\* with fetch (if there is an api client), and a request or an enqueue happens
\* only in a step that invokes the fetch of a returned deferred record; for a
\* fetched-list definition whose load-time data hold the value it returns the
\* record without fetch.
C16_ResolveIsLazy ==
    [][/\ IsFindTagInfoStep =>
            /\ ~RemoteOrEnqueue
            /\ UNCHANGED <<cache, processedValues, calls, fetches>>
            /\ returned'.def.type = "deferred" =>
                  /\ returned'.result.type = "deferred"
                  /\ returned'.result.fetch = returned'.apiClient
            /\ returned'.def = [type |-> "fetchedList", hit |-> TRUE] =>
                  /\ returned'.result.type = "fetchedList"
                  /\ ~returned'.result.fetch
       /\ RemoteOrEnqueue =>
            /\ returned.tag = "call"
            /\ returned.result.type = "deferred"
            /\ returned.result.fetch
            /\ returned' = NoCall
            /\ calls' = calls + 1]_vars

\* The fetch of a deferred record was invoked and posted a request, and a later
\* findTagInfo has returned another deferred record whose fetch is not invoked
\* yet.
C16_Witness ==
    /\ returned.tag = "call"
    /\ returned.result.type = "deferred"
    /\ returned.result.fetch
    /\ Len(requests) = 1
    /\ calls = 1
    /\ batched = <<>>

FinalStatus(st) == st \in {"hit", "found", "null", "rejected"}

\* C17: a batched deferred fetch enqueues its value once (a value of 0 is not
\* queued at all), in the step that makes it pending, and is settled once, in the step that invokes the
\* completion callbacks of the flush that carries its callback: rejected if
\* the flush failed, else found if the cache then holds the value and null if
\* not; that step enqueues nothing and posts nothing, and a settled fetch
\* never changes again.
C17_DeferredFetchSettlesOnce ==
    [][\A c \in DOMAIN fetches :
          LET f == fetches[c]
              after == fetches'[c]
          IN  /\ FinalStatus(f.status) => after = f
              /\ (f.status = "none" /\ after.status = "pending")
                 => /\ calls' = calls + 1
                    /\ Len(FlattenItems(flushes')) + Len(batched')
                          = Len(FlattenItems(flushes)) + Len(batched)
                            + (IF after.v # 0 THEN 1 ELSE 0)
              /\ f.status = "pending"
                 => /\ Len(FlattenItems(flushes')) + Len(batched')
                          = Len(FlattenItems(flushes)) + Len(batched)
                       \/ \E d \in DOMAIN fetches : d # c /\ fetches[d].status = "none"
                                                   /\ fetches'[d].status = "pending"
                    /\ \A i \in 1..Len(flushes) :
                          (InSeq(c, flushes[i].cbs) /\ flushes[i].phase = "settled"
                           /\ flushes'[i].phase = "done")
                          => /\ after.status =
                                   IF flushes[i].threw THEN "rejected"
                                   ELSE IF \E k \in 1..Len(cache) : cache[k].val = f.v
                                   THEN "found" ELSE "null"
                             /\ UNCHANGED <<batched, pendingCallbacks, calls, requests,
                                            cache>>
                             /\ Len(flushes') = Len(flushes)
                    /\ after.status # "pending"
                       => \E i \in 1..Len(flushes) :
                             /\ InSeq(c, flushes[i].cbs)
                             /\ flushes[i].phase = "settled"
                             /\ flushes'[i].phase = "done"]_vars

\* A fetch was carried by a flush whose request was answered without its
\* value, resolved null, and its value was neither enqueued nor requested again.
C17_Witness ==
    \E c \in DOMAIN fetches :
        /\ fetches[c].status = "null"
        /\ fetches[c].v # 0
        /\ Len(cbLog[c]) = 1
        /\ ~cbLog[c][1].error
        /\ \E r \in 1..Len(requests) :
              /\ requests[r].flush = cbLog[c][1].flush
              /\ requests[r].state = "answered"
        /\ ~\E k \in 1..Len(cache) : cache[k].val = fetches[c].v
        /\ Len(requests) = 1
        /\ batched = <<>>

\* C18: the lock of the batcher is free after every step, so also while a
\* bulk callback is running; a set call made while a bulk callback is running
\* completes in its own step: its item is queued or flushed, and the running
\* bulk callbacks go on running.
C18_LockFreeWhileBulkCallbackRuns ==
    [][/\ ~locked /\ ~locked'
       /\ (IsSetStep /\ \E i \in 1..Len(flushes) : flushes[i].phase = "running")
          => /\ \A i \in 1..Len(flushes) : flushes'[i] = flushes[i]
             /\ Len(FlattenItems(flushes')) + Len(batched')
                   >= Len(FlattenItems(flushes)) + Len(batched)
             /\ Len(pendingCallbacks') = Len(pendingCallbacks) + 1
                \/ /\ FlushedNow
                   /\ flushes'[Len(flushes')].cbs = Append(pendingCallbacks, calls')]_vars

\* A bulk callback is running and an item set after it started is in the queue.
C18_Witness ==
    /\ flushes # <<>>
    /\ flushes[Len(flushes)].phase = "running"
    /\ flushes[Len(flushes)].by = "set"
    /\ batched # <<>>
    /\ pendingCallbacks # <<>>
    /\ timeout = "armed"

IsSetNowStep ==
    /\ Len(flushes') = Len(flushes) + 1
    /\ flushes'[Len(flushes')].by = "setNow"

\* C19: setNow invokes the bulk callback in its own step with the queued
\* items followed by the given item, and leaves the queue empty; the timer,
\* the time of the last flush, the pending callbacks and the record of invoked
\* callbacks are as before; when the bulk callback of a setNow settles, thrown
\* or not, the call is over and no completion callback is invoked.
C19_SetNowFlushesAtOnce ==
    [][/\ IsSetNowStep =>
            LET new == flushes'[Len(flushes')]
            IN  /\ new.items = batched \/ new.items = Append(batched, calls')
                /\ new.phase = "running"
                /\ new.cbs = <<>>
                /\ batched' = <<>>
                /\ UNCHANGED <<pendingCallbacks, timeout, timerLeft, lastUpdatedAge, cbLog>>
       /\ \A i \in 1..Len(flushes) :
            (flushes[i].by = "setNow" /\ flushes[i].phase = "running"
             /\ flushes'[i] # flushes[i])
            => /\ flushes'[i].phase = "done"
               /\ UNCHANGED <<batched, pendingCallbacks, timeout, timerLeft,
                              lastUpdatedAge, cbLog>>]_vars

\* setNow with an item flushed a queued item and its own while a timer was
\* armed and a callback pending; its bulk callback threw and the call is over.
C19_Witness ==
    \E i \in 1..Len(flushes) :
        /\ flushes[i].by = "setNow"
        /\ Len(flushes[i].items) = 2
        /\ flushes[i].phase = "done"
        /\ flushes[i].threw
        /\ timeout = "armed"
        /\ pendingCallbacks # <<>>
        /\ batched = <<>>

IsClearTimeoutStep == timeout = "armed" /\ timeout' = "spent" /\ flushes' = flushes

ClearedBy(by) == returned' = Cleared(by)

LookupBatchers == <<virtualLookupBatcher, extrasLookupBatcher>>

IsDecodeCall == returned.tag = "getTagNumbers"

IsHexString(str) == \A k \in 1..Len(str) : IsHexDigit(str[k])

\* The value of eight hex digits, position by position.
WindowValue(str, from) ==
    str[from] * 16^7 + str[from + 1] * 16^6 + str[from + 2] * 16^5
    + str[from + 3] * 16^4 + str[from + 4] * 16^3 + str[from + 5] * 16^2
    + str[from + 6] * 16 + str[from + 7]

\* C22 (as stated): for every hex string of length L >= 16 getTagNumbers
\* returns the values of the two 8-character halves of the last 16 characters.
C22_DecodesLastSixteen ==
    (IsDecodeCall /\ IsHexString(returned.tagEpc) /\ Len(returned.tagEpc) >= 16) =>
        LET L == Len(returned.tagEpc)
        IN  returned.numbers = <<WindowValue(returned.tagEpc, L - 15),
                                 WindowValue(returned.tagEpc, L - 7)>>

\* C22 (amended): for every hex string of length L >= 16 getTagNumbers returns
\* the values of characters 1..8 and 9..16 if L < 32 and of characters 9..16
\* and 17..24 if L >= 32; the result is a function of the string.
C22_DecodesFirstSixteenAfterSlice ==
    (IsDecodeCall /\ IsHexString(returned.tagEpc) /\ Len(returned.tagEpc) >= 16) =>
        LET from == IF Len(returned.tagEpc) >= 32 THEN 9 ELSE 1
        IN  returned.numbers = <<WindowValue(returned.tagEpc, from),
                                 WindowValue(returned.tagEpc, from + 8)>>

\* A hex string of 32 characters or more was decoded to characters 9..24, which
\* differ from its first and from its last 16 characters.
C22_Witness ==
    /\ IsDecodeCall
    /\ IsHexString(returned.tagEpc)
    /\ Len(returned.tagEpc) >= 32
    /\ returned.numbers = <<WindowValue(returned.tagEpc, 9),
                            WindowValue(returned.tagEpc, 17)>>
    /\ returned.numbers # <<WindowValue(returned.tagEpc, 1),
                            WindowValue(returned.tagEpc, 9)>>
    /\ returned.numbers # <<WindowValue(returned.tagEpc, Len(returned.tagEpc) - 15),
                            WindowValue(returned.tagEpc, Len(returned.tagEpc) - 7)>>

\* The two chunks getTagNumbers parses, if the identifier has them.
DecodedChunk(str, k) ==
    LET from == (IF Len(str) >= 32 THEN 8 ELSE 0) + 8 * (k - 1)
    IN  SubSeq(str, from + 1, Min(from + 8, Len(str)))

IsHexNumber(str) == str # <<>> /\ IsHexString(str)

\* C23: getTagNumbers returns null whenever one of the two chunks is not a
\* valid hexadecimal number: it is missing because the identifier is too
\* short, or it contains a character that is no hex digit.
C23_InvalidChunkGivesNull ==
    (IsDecodeCall /\ \E k \in 1..2 : ~IsHexNumber(DecodedChunk(returned.tagEpc, k)))
        => returned.numbers = NoNumbers

\* What a call of findTagInfo can give back: null, a record or the object of
\* the virtual path.
IsReturnValue(result) == result.tag \in {"null", "record", "maybeVirtual"}

EnumHas(values, contentValue) == \E k \in 1..Len(values) : values[k].value = contentValue

\* text is the text of the first entry of the table with this value.
IsTextOfEntry(values, contentValue, text) ==
    \E k \in 1..Len(values) :
        /\ values[k].value = contentValue
        /\ \A j \in 1..(k - 1) : values[j].value # contentValue
        /\ values[k].text = text

EnumRecordWithText ==
    /\ returned.result.tag = "record"
    /\ returned.result.type = "enum"
    /\ IsTextOfEntry(returned.values, returned.contentValue, returned.text)

IsLookupCall == returned.tag = "recursiveLookup"

IsMatch == IsLookupCall /\ returned.result # NullValue

\* The nodes met when the pattern is followed from node 1 through fields of
\* objects, up to the first value that is no object.
RECURSIVE ObjectPath(_, _, _)
ObjectPath(heap, lookupMap, target) ==
    IF target.t # "object" \/ heap[target.v].kind # "object" THEN <<>>
    ELSE <<target.v>> \o ObjectPath(heap, Slice1(lookupMap),
                                    IF lookupMap = <<>> THEN UndefinedValue
                                    ELSE GetSegment(heap[target.v], lookupMap))

\* Following the pattern through objects from node 1 comes back to an object
\* it has been at.
PathRevisits(heap, lookupMap) ==
    LET path == ObjectPath(heap, lookupMap, Ref(1))
    IN  \E i, j \in 1..Len(path) : i < j /\ path[i] = path[j]

\* C26: recursiveLookup returns for every structure, self-referential ones
\* included: no result lies deeper than the structure has nodes, and a pattern
\* that leads back to an object on its own chain gives no match; on
\* a = {self: a, v: 5} with pattern "v" and value 5 it returns a match.
C26_LookupEndsOnCycles ==
    IsLookupCall =>
        /\ returned.depth <= MaxNodes
        /\ PathRevisits(returned.target, returned.lookupMap) => returned.result = NullValue
        /\ (/\ returned.target[1] = ObjectNode(Ref(1), NumberValue(5))
            /\ returned.lookupMap = <<"v">>)
                => /\ returned.result.t = "object"
                   /\ returned.heap[returned.result.v].cloneOf = 1
                   /\ returned.depth = 1

\* a = {self: a, v: 5} was searched with pattern "self.v": the branch that
\* came back to a was abandoned.
C26_Witness ==
    /\ IsLookupCall
    /\ returned.target[1] = ObjectNode(Ref(1), NumberValue(5))
    /\ returned.lookupMap = <<"self", "v">>
    /\ returned.result = NullValue
    /\ returned.depth = 1

\* The nodes a node refers to through its fields, its elements and its
\* back-reference.
Successors(heap, n) ==
    {x.v : x \in {y \in {heap[n].self, heap[n].v, heap[n].parent}
                        \cup {heap[n].items[k] : k \in 1..Len(heap[n].items)} :
                    y.t = "object"}}

RECURSIVE ReachableFrom(_, _)
ReachableFrom(heap, nodes) ==
    LET more == nodes \cup UNION {Successors(heap, n) : n \in nodes}
    IN  IF more = nodes THEN nodes ELSE ReachableFrom(heap, more)

\* Some node that can be reached from n can be reached from itself.
HasCycle(heap, n) ==
    \E m \in ReachableFrom(heap, {n}) : m \in ReachableFrom(heap, Successors(heap, m))

\* C27: the record recursiveLookup returns, with everything that can be
\* reached through its fields and back-references, has no reference cycle,
\* also when the searched structure is self-referential.
C27_ResultHasNoCycle ==
    IsMatch => ~HasCycle(returned.heap, returned.result.v)

\* Where the pattern, followed from node 1 through fields of objects, meets an
\* array: the array, the pattern left there, the depth and the chain so far.
RECURSIVE WalkToArray(_, _, _, _, _)
WalkToArray(heap, lookupMap, target, root, seen) ==
    IF target.t # "object" \/ target \in seen
    THEN [found |-> FALSE, array |-> target, rest |-> lookupMap, root |-> root, seen |-> seen]
    ELSE IF heap[target.v].kind = "array"
    THEN [found |-> TRUE, array |-> target, rest |-> lookupMap, root |-> root, seen |-> seen]
    ELSE WalkToArray(heap, Slice1(lookupMap), GetSegment(heap[target.v], lookupMap),
                     root + 1, seen \cup {target})

\* The node holds the value looked for under the last segment of the pattern.
HoldsLeaf(node, lookupMap) ==
    /\ lookupMap # <<>>
    /\ IF node.kind = "array"
       THEN /\ lookupMap[Len(lookupMap)] = "[]"
            /\ \E k \in 1..Len(node.items) : node.items[k] = NumberValue(LookingForValue)
       ELSE GetField(node, lookupMap[Len(lookupMap)]) = NumberValue(LookingForValue)

\* What the search below element k of the array gives on its own.
ElementMatch(w, k) ==
    lookupRec(returned.target, Slice1(w.rest), returned.target[w.array.v].items[k],
              w.array, w.root + 1, w.seen \cup {w.array})

\* C28: when the pattern meets an array, a segment other than "[]" gives no
\* match; with "[]" the elements are tried in array order and the first one
\* below which there is a match decides: the result is a copy of the object
\* or array that directly holds the matched leaf below that element, not the
\* leaf and not the record of a later element.
C28_FirstElementWins ==
    IsLookupCall =>
        LET w == WalkToArray(returned.target, returned.lookupMap, Ref(1), 0, {})
            winners == {k \in 1..Len(returned.target[w.array.v].items) :
                            ElementMatch(w, k).result # NullValue}
        IN  w.found =>
                IF w.rest = <<>> \/ Head(w.rest) # "[]" \/ winners = {}
                THEN returned.result = NullValue
                ELSE LET first == ElementMatch(w, CHOOSE k \in winners : \A j \in winners : k <= j)
                         record == returned.heap[returned.result.v]
                     IN  /\ returned.result.t = "object"
                         /\ returned.depth = first.depth
                         /\ record.cloneOf = first.heap[first.result.v].cloneOf
                         /\ record.cloneOf \in 1..MaxNodes
                         /\ HoldsLeaf(returned.target[record.cloneOf], returned.lookupMap)
                         /\ record.toJson

\* An array with two different elements that both hold the value was searched
\* with "[].v": the result is a copy of the first element.
C28_Witness ==
    /\ IsMatch
    /\ returned.lookupMap = <<"[]", "v">>
    /\ returned.target[1].kind = "array"
    /\ Len(returned.target[1].items) = 2
    /\ returned.target[1].items[1] # returned.target[1].items[2]
    /\ \A k \in 1..2 :
          /\ returned.target[1].items[k].t = "object"
          /\ returned.target[returned.target[1].items[k].v].v = NumberValue(LookingForValue)
    /\ returned.heap[returned.result.v].cloneOf = returned.target[1].items[1].v

IsRenderCall == returned.tag = "processTextMapper"

\* The fragments from the last one backwards, each but the first preceded by
\* exactly one space.
RECURSIVE SpacedFrom(_, _)
SpacedFrom(fragments, k) ==
    IF k = 0 THEN <<>>
    ELSE IF k = 1 THEN fragments[1]
    ELSE SpacedFrom(fragments, k - 1) \o <<" ">> \o fragments[k]

\* The rules [{values: ["name"], matchedString: "{0}", notMatchingString:
\* "missing"}, " yeahhhhh"].
ExampleMapper == <<RuleItem(<<"name">>, <<"{0}">>, <<"missing">>), TextItem(<<" ", "yeahhhhh">>)>>

IsExampleCall(name) ==
    /\ IsRenderCall
    /\ returned.textMapper = ExampleMapper
    /\ returned.target.name = name

\* C29 (as stated): the text is the fragments in rule order with exactly one
\* space between them; the example rules give "John yeahhhhh" for
\* {name: "John"} and "missing yeahhhhh" for {}.
C29_ExampleWithOneSpace ==
    /\ IsRenderCall => returned.text = SpacedFrom(returned.fragments, Len(returned.fragments))
    /\ IsExampleCall(JsJohn) => returned.text = <<"John", " ", "yeahhhhh">>
    /\ IsExampleCall(JsUndefined) => returned.text = <<"missing", " ", "yeahhhhh">>

\* C29 (amended): the text is the fragments in rule order with exactly one
\* space between them; the example rules, whose second fragment begins with a
\* space of its own, give "John  yeahhhhh" and "missing  yeahhhhh" with two
\* spaces.
C29_ExampleWithTwoSpaces ==
    /\ IsRenderCall => returned.text = SpacedFrom(returned.fragments, Len(returned.fragments))
    /\ IsExampleCall(JsJohn) => returned.text = <<"John", " ", " ", "yeahhhhh">>
    /\ IsExampleCall(JsUndefined) => returned.text = <<"missing", " ", " ", "yeahhhhh">>

\* The example rules were rendered for {name: "John"}.
C29_Witness ==
    /\ IsExampleCall(JsJohn)
    /\ returned.fragments = <<(<<"John">>), <<" ", "yeahhhhh">>>>
    /\ Len(returned.text) = 4

\* The values of the paths of a rule, undefined ones included.
ResolvedValues(values, target) == [k \in 1..Len(values) |-> recursiveSelect(values[k], target)]

\* The template with every numbered placeholder in range replaced by the text
\* of the value itself and every other numbered placeholder by the marker.
RECURSIVE Substituted(_, _)
Substituted(template, resolved) ==
    IF template = <<>> THEN <<>>
    ELSE (IF Head(template) \notin Placeholders THEN <<Head(template)>>
          ELSE IF PlaceholderIndex(Head(template)) + 1 <= Len(resolved)
          THEN resolved[PlaceholderIndex(Head(template)) + 1].text
          ELSE UnknownReplacement)
         \o Substituted(Tail(template), resolved)

\* C30: a rule all of whose paths resolve to a defined value renders its
\* template with each placeholder {i} in range replaced by the i-th value
\* itself, whatever the value (0, "", false and null included), and with the
\* marker only for an index out of range; a rule with an undefined path
\* renders its fallback.
C30_PlaceholderGetsTheValue ==
    (/\ IsRenderCall
     /\ Len(returned.textMapper) = 1
     /\ returned.textMapper[1].kind = "object") =>
        LET item == returned.textMapper[1]
            resolved == ResolvedValues(item.values, returned.target)
        IN  IF \A k \in 1..Len(resolved) : resolved[k] # JsUndefined
            THEN returned.text = Substituted(item.matchedString, resolved)
            ELSE returned.text = item.notMatchingString

\* What the items that can be processed give, one after the other: the items
\* that throw are left out, the ones before and after them are kept.
RECURSIVE FragmentsOfSoundItems(_, _)
FragmentsOfSoundItems(textMapper, target) ==
    IF textMapper = <<>> THEN <<>>
    ELSE (IF Head(textMapper).kind = "null" THEN <<>>
          ELSE <<processItem(Head(textMapper), target)>>)
         \o FragmentsOfSoundItems(Tail(textMapper), target)

\* C31: processTextMapper returns a text whatever the items are, and an item
\* whose processing fails costs only its own fragment: the fragments of all
\* other items, before and after it, are in the text.
C31_OnlyFailingFragmentOmitted ==
    IsRenderCall =>
        /\ returned.fragments = FragmentsOfSoundItems(returned.textMapper, returned.target)
        /\ returned.text = SpacedFrom(returned.fragments, Len(returned.fragments))

\* The request that is answered in this step asked for the identifier.
AnsweredRequestHas(epc) ==
    \E r \in 1..Len(requests) :
        /\ requests[r].state = "pending"
        /\ requests'[r].state = "answered"
        /\ Has(requests[r].values, epc)

\* C32: in the virtual lookup an entry becomes not-found only in the step
\* that answers a request which asked for the identifier, and an entry that
\* is found never becomes not-found (a clear makes it absent, not not-found).
C32_NotFoundOnlyForRequested ==
    [][batcherKind = "virtual" =>
        \A epc \in Epcs :
            /\ (/\ virtuallyProcessedTags'[epc] = NotFoundEntry
                /\ virtuallyProcessedTags[epc] # NotFoundEntry)
                    => AnsweredRequestHas(epc)
            /\ virtuallyProcessedTags[epc].status = "found"
                    => virtuallyProcessedTags'[epc] # NotFoundEntry]_vars

\* The nodes met from a node along __parent__, the node itself first.
RECURSIVE ParentChain(_, _)
ParentChain(heap, n) ==
    IF heap[n].parent.t # "object" THEN <<n>>
    ELSE <<n>> \o ParentChain(heap, heap[n].parent.v)

\* The node at depth j of the searched structure has the child at depth j + 1
\* under segment j + 1 of the pattern.
HoldsChild(node, segment, child) ==
    IF node.kind = "array"
    THEN segment = "[]" /\ \E k \in 1..Len(node.items) : node.items[k] = Ref(child)
    ELSE GetField(node, segment) = Ref(child)

\* C33: for a match with its leaf at depth d >= 2 the __parent__ references
\* lead from the returned record through a copy of each ancestor, nearest
\* first, and end after d - 1 steps at a copy of the top-level container.
C33_ParentChainReachesTop ==
    (IsMatch /\ returned.depth >= 2) =>
        LET chain == ParentChain(returned.heap, returned.result.v)
            d == returned.depth
            origin(k) == returned.heap[chain[k]].cloneOf
        IN  /\ Len(chain) = d
            /\ \A k \in 1..d : chain[k] > MaxNodes /\ origin(k) \in 1..MaxNodes
            /\ \A j, k \in 1..d : j # k => chain[j] # chain[k]
            /\ origin(d) = 1
            /\ \A k \in 2..d :
                  HoldsChild(returned.target[origin(k)], returned.lookupMap[d - k + 1],
                             origin(k - 1))

\* A leaf at depth 3 was matched: the record is a copy of node 3, its
\* __parent__ a copy of node 2, and the __parent__ of that a copy of node 1.
C33_Witness ==
    /\ IsMatch
    /\ returned.depth = 3
    /\ LET chain == ParentChain(returned.heap, returned.result.v)
       IN  /\ Len(chain) = 3
           /\ returned.heap[chain[1]].cloneOf = 3
           /\ returned.heap[chain[2]].cloneOf = 2
           /\ returned.heap[chain[3]].cloneOf = 1

\* C39: recursiveLookup leaves the structure it searches as it was: every
\* node of it has the fields it had before the call, and toJson and
\* __parent__ are only on the copies the call made.
C39_SearchedStructureUnchanged ==
    IsLookupCall =>
        /\ Len(returned.heap) >= MaxNodes
        /\ SubSeq(returned.heap, 1, MaxNodes) = returned.target
        /\ \A n \in 1..Len(returned.heap) :
              (returned.heap[n].toJson \/ returned.heap[n].parent # UndefinedValue)
                  => n > MaxNodes /\ returned.heap[n].cloneOf \in 1..MaxNodes

\* A record in an array of records was matched at depth 2: the copies carry
\* toJson and __parent__, the array and its records are as before.
C39_Witness ==
    /\ IsMatch
    /\ returned.depth = 2
    /\ returned.target[1].kind = "array"
    /\ returned.heap[returned.result.v].toJson
    /\ returned.heap[returned.result.v].parent.t = "object"
    /\ returned.heap[returned.result.v].cloneOf \in 2..MaxNodes
    /\ SubSeq(returned.heap, 1, MaxNodes) = returned.target

\* ---- C34: set on a fresh or stale batcher ----

\* What this step pushed on the queue.
PushedNow == SubSeq(enqueued', Len(enqueued) + 1, Len(enqueued'))

\* The batcher never flushed, or its last flush began more than
\* 10 x (period + 7) ms ago.
FreshOrStale ==
    \/ flushes = <<>>
    \/ lastUpdatedAge > StaleFactor * (PeriodInMs + FixedSkew)

\* C34: on a batcher that never flushed, or whose last flush began more than
\* 10 x (period + 7) ms ago, a call of set invokes the bulk callback at once
\* with everything queued at that moment (the item of this call included) and
\* leaves the queue empty; the debounce timer is left as it was, pending or
\* not, and none is armed.
C34_FreshOrStaleSetFlushesAtOnce ==
    [][(IsSetStep /\ FreshOrStale) =>
         /\ Len(flushes') = Len(flushes) + 1
         /\ flushes'[Len(flushes')].by = "set"
         /\ flushes'[Len(flushes')].items = batched \o PushedNow
         /\ flushes'[Len(flushes')].phase = "running"
         /\ batched' = <<>>
         /\ timeout' = timeout
         /\ timerLeft' = timerLeft]_vars

\* C34 witness: the first set on a batcher that never flushed handed its item
\* to the bulk callback at once and armed no timer.
C34_Witness ==
    /\ calls = 1
    /\ Len(flushes) = 1
    /\ flushes[1].by = "set"
    /\ flushes[1].items # <<>>
    /\ batched = <<>>
    /\ timeout = "null"

\* The stale case with a timer pending is met as well: no step is a set on a
\* batcher that flushed before, is stale and has its timer armed (refuted).
C34_StaleWithTimerNeverMet ==
    [][~(IsSetStep /\ flushes # <<>> /\ timeout = "armed" /\ timerLeft > 0
         /\ lastUpdatedAge > StaleFactor * (PeriodInMs + FixedSkew))]_vars

\* ---- C35: the timer an immediate flush leaves behind ----

\* The batcher with callers that call set and setNow only, so that nothing but
\* set itself could cancel a timer, under the scheduling the event loop
\* guarantees: time passes and a due timer fires.
TimerNext ==
    \/ Set
    \/ SetNow
    \/ TimerFire
    \/ Settle
    \/ CallPendingCallbacks
    \/ Tick

TimerSpec ==
    /\ Init /\ [][TimerNext]_vars
    /\ WF_vars(Tick)
    /\ WF_vars(TimerFire)

\* set has just flushed at once, as flush number n, with a timer armed.
FlushedOverTimer(n) ==
    /\ Len(flushes) = n
    /\ flushes[n].by = "set"
    /\ lastUpdatedAge = 0
    /\ timeout = "armed"

TimerFlushedAfter(n) ==
    \E i \in (n + 1)..Len(flushes) : flushes[i].by = "timer"

OverlappedByClear(reqs) ==
    [r \in DOMAIN reqs |->
        IF reqs[r].state = "pending" THEN [reqs[r] EXCEPT !.cleared = TRUE] ELSE reqs[r]]

\* clearAllCache() called while a bulk call awaits its response.
ClearAllCacheDuringCall ==
    /\ ~Retrying
    /\ batcherKind = "virtual" => Started <= MaxClearedFetches
    /\ \E r \in 1..Len(requests) : requests[r].state = "pending"
    /\ Cardinality({r \in 1..Len(requests) : requests[r].cleared}) < MaxOverlappedCalls
    /\ SetStores(clearAllCache(StoresNow))
    /\ requests' = OverlappedByClear(requests)
    /\ returned' = NoCall
    /\ UNCHANGED <<batcherVars, observerVars, fetches, batcherKind,
                   virtualLookupBatcher, extrasLookupBatcher, lookups>>

\* The batched endpoint or the virtual lookup at work, with clearAllCache
\* called at any moment a bulk call is in flight.
ClearRaceInit == ResolverInit /\ batcherKind \in {"deferred", "virtual"}

ClearRaceNext ==
    \/ (batcherKind = "deferred" /\ DeferredNext)
    \/ VirtualNext
    \/ LookupNext
    \/ ClearAllCacheDuringCall

ClearRaceSpec == ClearRaceInit /\ [][ClearRaceNext]_vars

\* This step replaced a store by a fresh one while a bulk call was awaiting
\* its response.
IsClearOverCall ==
    \E r \in 1..Len(requests) : ~requests[r].cleared /\ requests'[r].cleared

\* This step is the response to bulk call r.
IsAnswerTo(r) ==
    /\ r \in 1..Len(requests)
    /\ requests[r].state = "pending"
    /\ requests'[r].state = "answered"

IsPrefix(a, b) == Len(a) <= Len(b) /\ SubSeq(b, 1, Len(a)) = a

\* C36: a clear leaves every bulk call in flight as it is: no request, flush,
\* timer or registered callback changes.  When such a call is answered
\* later, it writes to the store as it is then: the virtual memo keeps what
\* it holds for other identifiers and gets an entry for every identifier of
\* the call's snapshot; the record list of the batched endpoint keeps what it
\* holds and gets the records of the answer appended.
C36_ClearDoesNotFenceBulkCall ==
    /\ [][IsClearOverCall =>
            /\ Len(requests') = Len(requests)
            /\ \A r \in 1..Len(requests) : requests'[r].state = requests[r].state
            /\ UNCHANGED <<batched, pendingCallbacks, timeout, timerLeft, flushes,
                           cbLog, lookups, fetches>>]_vars
    /\ [][\A r \in 1..Len(requests) :
            (IsAnswerTo(r) /\ requests[r].cleared) =>
               /\ batcherKind = "virtual" =>
                    /\ \A epc \in Epcs :
                          Has(flushes[requests[r].flush].items, epc) =>
                              virtuallyProcessedTags'[epc] # NoEntry
                    /\ \A epc \in Epcs :
                          ~Has(flushes[requests[r].flush].items, epc) =>
                              \/ virtuallyProcessedTags'[epc] = virtuallyProcessedTags[epc]
                              \/ virtuallyProcessedTags'[epc].status = "found"
               /\ batcherKind = "deferred" =>
                    \E result \in Responses : cache' = MergeInto(cache, result)]_vars

\* C36 witness: the virtual memo holds an entry for an identifier that only
\* one bulk call asked for, and the memo was cleared while that call was in
\* flight.
C36_Witness ==
    /\ batcherKind = "virtual"
    /\ \E r \in 1..Len(requests), epc \in Epcs :
          /\ requests[r].cleared
          /\ requests[r].state = "answered"
          /\ Has(requests[r].values, epc)
          /\ virtuallyProcessedTags[epc] # NoEntry
          /\ \A q \in 1..Len(requests) : q # r => ~Has(flushes[requests[q].flush].items, epc)

\* The same for the batched endpoint: the record list was cleared while the
\* only bulk call ever made was in flight, and holds its records (reached).
C36_RecordsOfClearedCallPresent ==
    /\ batcherKind = "deferred"
    /\ Len(requests) = 1
    /\ requests[1].cleared
    /\ requests[1].state = "answered"
    /\ cache # <<>>

\* ---- C37: set with a falsy item, and the fetch of content value 0 ----

\* This step is the call of set made by fetch c for content value 0.
IsSetOfZero(c) ==
    /\ fetches[c].status = "none"
    /\ fetches'[c].status = "pending"
    /\ fetches'[c].v = 0

\* set with a falsy item queues nothing, registers the completion callback
\* (it is held for the next flush, or went with the flush this call started)
\* and takes the flush decision: it flushes at once or arms the timer.
ZeroSetRegistersAndDecides ==
    [][\A c \in DOMAIN fetches :
          IsSetOfZero(c) =>
             /\ calls' = c
             /\ Len(FlattenItems(flushes')) + Len(batched')
                   = Len(FlattenItems(flushes)) + Len(batched)
             /\ \/ /\ Len(flushes') = Len(flushes) + 1
                   /\ flushes'[Len(flushes')].by = "set"
                   /\ flushes'[Len(flushes')].items = batched
                   /\ flushes'[Len(flushes')].cbs = Append(pendingCallbacks, c)
                   /\ batched' = <<>> /\ pendingCallbacks' = <<>>
                \/ /\ flushes' = flushes
                   /\ timeout' = "armed" /\ timerLeft' = PeriodInMs + FixedSkew
                   /\ batched' = batched
                   /\ pendingCallbacks' = Append(pendingCallbacks, c)]_vars

\* No request to the remote endpoint carries the value 0.
ZeroNeverSent ==
    \A r \in 1..Len(requests) : ~Has(requests[r].values, 0)

ArmsTimer ==
    /\ timers' # timers
    /\ \E k \in 1..Len(timers') : timers'[k] = PeriodInMs + FixedSkew

\* C38: the table never holds more than one debounce timer of the batcher,
\* and the one it holds is the one the handle names; a step that enters a
\* timer is a call of set, and after it the table holds that timer alone.
C38_AtMostOneArmedTimer ==
    /\ [](Len(timers) <= 1)
    /\ [](timers = IF timeout = "armed" THEN <<timerLeft>> ELSE <<>>)
    /\ [][ArmsTimer => (IsSetStep /\ timers' = <<PeriodInMs + FixedSkew>>)]_vars

\* C38 witness: the second set armed a timer and the third set armed another
\* one while the first was still pending (nothing was flushed or cancelled in
\* between); the table holds one timer, with the whole period to go.
C38_Witness ==
    /\ calls = 3
    /\ Len(flushes) = 1
    /\ Len(batched) = 2
    /\ window.clean
    /\ sinceSet = 0
    /\ lastUpdatedAge >= 2 * TickMs
    /\ timeout = "armed"
    /\ timers = <<PeriodInMs + FixedSkew>>

====
